---- MODULE Spec2Model ----
(***************************************************************************)
(* Request-dispatch engine of the reverse proxy (api/proxy.ts) together    *)
(* with the store operations it calls (lib/redis.ts): daily quota          *)
(* pre-check and deferred usage commit, waterfall source selection over    *)
(* the concurrency ledger, upstream relay (streaming and non-streaming)    *)
(* and the release of the concurrency slot on every termination path.      *)
(*                                                                         *)
(* One action is one run of the handler between two awaits: the effect of  *)
(* the awaited store or network operation followed by the synchronous code *)
(* up to the next await.  Requests interleave at these points only.        *)
(***************************************************************************)
EXTENDS Integers, Sequences, FiniteSets, TLC

\* ---------------------------------------------------------------- bounds
DailyLimit == 2         \* daily_limit of the caller's KeyRecord
MaxNow == 3             \* clock horizon, in steps of 30 s
MaxBlocks == 2          \* longest content array of a message
MaxDispatch == 3        \* dispatches of a recorded sequential run
MaxLen == 3             \* longest text handed to a rewriting function
MaxVersion == 2         \* admin mutations per cached entity
MaxDay == 1             \* day changes in a run

\* ------------------------------------------------------ program constants
HeartbeatMs == 15000
DefaultConcurrencyLimit == 100   \* settings?.concurrency_limit || 100
BackupConcurrencyLimit == 10     \* Number(backup.concurrency_limit) || 10

Requests == {"r1", "r2", "r3"}
Sources == {"default", "B1", "B2"}
NoSource == "none"

VARIABLES
    concVal,    \* concurrency:{id} -> integer value (0 when the key is absent)
    concKey,    \* concurrency:{id} -> "absent" | "persist" | "volatile" (has TTL)
    keyRec,     \* the caller's KeyRecord: [count, date]
    today,      \* current UTC day
    cfg,        \* settings, backup profiles and the key's pinned profile
    req,        \* per request: position in the handler and its locals
    now,        \* wall clock in ms
    env,        \* the environment of the run: "full" | "ledger" | "usage"
    started,    \* number of dispatches begun in a recorded run
    fresh,      \* per counter key: the requests in a short phase when its TTL was set
    expected,   \* recorded history of incrementUsage calls: [n, conv, ts, calls]
    entities,   \* what the store holds under each reserved key
    stored,     \* per cached entity: the version of the value in the store
    cache,      \* per cached entity: the per-process cache entry
    reads,      \* per cached entity: a read that fetched from the store and has not filled the cache
    saving,     \* per cached entity: an admin mutation between its redis.set and its invalidation
    served,     \* per cached entity: what the last completed read returned
    admin,      \* an admin/user-surface update of the KeyRecord: its position and the record it read
    calc        \* the evaluation of a rewriting function: its inputs and what it has produced

storeVars == <<concVal, concKey, keyRec, today>>
histVars == <<now, env, started, fresh, expected>>
\* what the request handler leaves alone apart from getKeyData's migration
cacheVars == <<stored, cache, reads, saving, served>>
authFrame == <<env, cacheVars, admin, calc>>
\* what every step after authentication leaves alone
handlerFrame == <<authFrame, entities>>
vars == <<concVal, concKey, keyRec, today, cfg, req, now, env, started, fresh, expected,
          entities, stored, cache, reads, saving, served, admin, calc>>
\* what the evaluation of a rewriting function leaves alone
pureFrame == <<concVal, concKey, keyRec, today, cfg, req, now, env, started, fresh, expected,
               entities, stored, cache, reads, saving, served, admin>>

Min(a, b) == IF a < b THEN a ELSE b

\* ------------------------------------------------------------ configuration
\* limit 0 stands for an unset/falsy concurrency_limit
Config(hasDefault, dLimit, a1, l1, a2, l2, pin) ==
    [ defaultApiKey |-> hasDefault,       \* settings.api_key || process.env.API_KEY_GOC
      API_KEY_GOC |-> hasDefault,         \* process.env.API_KEY_GOC is set
      concurrency_limit |-> dLimit,
      backups |-> << [id |-> "B1", is_active |-> a1, concurrency_limit |-> l1],
                     [id |-> "B2", is_active |-> a2, concurrency_limit |-> l2] >>,
      selected_api_profile |-> pin,      \* "none" | "active" | "inactive" | "missing"
      disable_system_prompt_injection |-> FALSE,   \* of the pinned profile
      system_prompt |-> TRUE ]             \* settings.system_prompt is non-empty

Configs ==
    { Config(TRUE, 2, TRUE, 2, TRUE, 2, "none"),
      Config(TRUE, 1, FALSE, 2, TRUE, 2, "none"),
      Config(TRUE, 2, TRUE, 1, TRUE, 2, "none"),
      Config(FALSE, 0, TRUE, 1, TRUE, 1, "none"),
      Config(TRUE, 2, TRUE, 2, TRUE, 2, "active"),
      Config(TRUE, 0, TRUE, 0, FALSE, 2, "inactive"),
      Config(TRUE, 1, TRUE, 2, FALSE, 2, "missing") }

\* ------------------------------------------------------------ environments
\* "full":   two concurrent requests with every input and upstream outcome
\* "ledger": three concurrent streamed tool-result turns on the default
\*           source, with the counter's TTL running out
\* "reset":  the same with the admin reset of the counters
\* "crash":  the same with the death of the serving process at any point
\* "usage":  one dispatch at a time, with a clock and the recorded history
\* "count":  one request over the shapes of URL and message list, its input kept
\* "faulty": one request during which a store command may fail
\* "admin":  one request and updates of its KeyRecord by the admin/user surface
\* "dayroll": one request around a change of the UTC day
\* "heartbeat": one streamed tool-result turn with a 15 s clock and the frames
\*           written to the caller up to the first data frame
\* "legacy": one request to the main handler and one to the legacy endpoint
\* "sse", "rewrite", "url", "prompt", "resolve": one evaluation of a function of the
\*           handler over its inputs, the store left alone
\* "cache":  no request; reads and admin mutations of the cached entities
\* "reserved": one tool-result turn whose bearer token may be a reserved store key
recording == env = "usage"

ActiveRequests ==
    IF env \in {"ledger", "reset", "crash", "quota"} THEN Requests
    ELSE IF env \in {"count", "faulty", "reserved", "admin", "dayroll", "heartbeat", "legacy"} THEN {"r1"}
    ELSE {"r1", "r2"}

ConfigsOf(e) ==
    IF e \in {"cache", "admin", "dayroll", "heartbeat", "sse", "rewrite", "url", "prompt", "resolve",
               "legacy", "mutate"}
    THEN {Config(TRUE, 2, TRUE, 2, TRUE, 2, "none")}
    ELSE IF e \in {"ledger", "reset", "crash"} THEN {Config(TRUE, 2, FALSE, 2, FALSE, 2, "none")}
    ELSE IF e \in {"usage", "count", "quota"} THEN {Config(TRUE, 2, TRUE, 2, TRUE, 2, "none")}
    ELSE IF e = "faulty"       \* the default key stored in settings or given by the environment
         THEN UNION {{[c EXCEPT !.API_KEY_GOC = k] :
                            k \in {b \in BOOLEAN : b => c.defaultApiKey}} : c \in Configs}
    ELSE IF e = "reserved"     \* a migrated record has no selected_api_profile_id
         THEN {c \in Configs : c.selected_api_profile = "none"}
    ELSE Configs

\* SETTINGS_KEY, API_PROFILES_KEY, BACKUP_PROFILES_KEY, ANNOUNCEMENTS_KEY
ReservedKeys ==
    {"__proxy_settings__", "__api_profiles__", "__backup_profiles__", "__announcements__"}

\* the bearer token: the caller's own key ("key") or any other string
Tokens == IF env = "reserved" THEN {"key"} \cup ReservedKeys ELSE {"key"}

\* whether the store command of a call fails (redis.get / redis.incr throws)
StoreErrors == IF env = "faulty" THEN BOOLEAN ELSE {FALSE}

Auths == IF env = "full" THEN {"no_header", "unknown_key", "expired", "ok"} ELSE {"ok"}

\* req.url: the path followed by the query string
Url(path, query) == [path |-> path, query |-> query]

Queries == {"", "?beta=true", "?x=/count_tokens"}

\* content of a message: a string, an array of blocks (a block is given by
\* its type, "null" standing for a null entry), a single object, or null
StringContent == [kind |-> "string", blocks |-> <<>>, type |-> "none"]
ArrayContent(blocks) == [kind |-> "array", blocks |-> blocks, type |-> "none"]
ObjectContent(type) == [kind |-> "object", blocks |-> <<>>, type |-> type]
NullContent == [kind |-> "null", blocks |-> <<>>, type |-> "none"]

BlockTypes == {"text", "tool_result", "null"}

Contents ==
    {StringContent, NullContent}
        \cup {ObjectContent(t) : t \in {"text", "tool_result"}}
        \cup {ArrayContent(b) : b \in UNION {[1..n -> BlockTypes] : n \in 0..MaxBlocks}}

Message(role, content) == [role |-> role, content |-> content]

NullMessage == Message("null", NullContent)

MessageShapes == {NullMessage} \cup {Message(ro, c) : ro \in {"user", "assistant"}, c \in Contents}

\* requestBody.messages: missing, not an array, or a list of messages
Messages(kind, list) == [kind |-> kind, list |-> list]

MessageLists ==
    {Messages("absent", <<>>), Messages("not_array", <<>>), Messages("array", <<>>)}
        \cup {Messages("array", <<m>>) : m \in MessageShapes}
        \cup {Messages("array", <<Message("assistant", StringContent), m>>) : m \in MessageShapes}

Paths ==
    IF env = "count"
    THEN {Url(p, q) : p \in {"/v1/messages", "/v1/messages/count_tokens"}, q \in Queries}
    ELSE IF env \in {"ledger", "reset", "crash", "quota"} THEN {Url("/v1/messages", "")}
    ELSE {Url("/v1/messages", ""), Url("/v1/messages/count_tokens", "")}

LastMessages ==
    IF env = "count" THEN MessageLists
    ELSE IF env \in {"ledger", "reset", "crash", "reserved", "heartbeat"}
         THEN {Messages("array", <<Message("user", ArrayContent(<<"tool_result">>))>>)}
    ELSE IF env = "quota"
         THEN {Messages("array", <<Message("user", StringContent)>>),
               Messages("array", <<Message("user", ArrayContent(<<"tool_result">>))>>)}
         ELSE {Messages("array", <<Message("user", StringContent)>>),
               Messages("array", <<Message("user", ArrayContent(<<"tool_result">>))>>),
               Messages("array", <<Message("assistant", StringContent)>>)}

Conversations == IF recording THEN {"ip1:ua", "ip2:ua"} ELSE {"ip1:ua"}

ModelOks == IF env = "full" THEN BOOLEAN ELSE {TRUE}

NullMessages == IF env = "full" THEN BOOLEAN ELSE {FALSE}

TextOks == IF env = "full" THEN BOOLEAN ELSE {TRUE}

FetchOutcomes ==
    IF env = "full" THEN {"network_error", "timeout", "error", "stream", "no_reader", "json"}
    ELSE IF env = "usage" THEN {"error", "stream", "json"}
    ELSE IF env \in {"count", "admin", "dayroll", "legacy"} THEN {"stream", "json"}
    ELSE {"stream"}

\* ------------------------------------------------------------ request record
IdleRequest ==
    [ pc |-> "idle",
      input |-> [url |-> Url("", ""), messages |-> Messages("absent", <<>>)],
      userToken |-> "key",
      modelOk |-> TRUE,                   \* requestBody.model === modelDisplay
      settings |-> "loaded",              \* "null" when getSettings returned null
      shouldCountUsage |-> FALSE,
      conversationId |-> "ip1:ua",
      chk |-> 0,                          \* currentUsageCheck.currentUsage
      trySrc |-> NoSource,                \* source whose counter is being tried
      current |-> 0,                      \* result of redis.incr
      concurrencyIdToDecrement |-> NoSource,
      timeoutId |-> FALSE,                \* the 300 s abort timer is pending
      stream |-> FALSE,
      usageIncremented |-> FALSE,
      hooks |-> FALSE,                    \* close/finish/error hooks registered
      closed |-> FALSE,                   \* caller disconnected
      heartbeatInterval |-> FALSE,        \* the 15 s heartbeat timer is running
      nextBeat |-> 0,                     \* when the timer fires next
      relId |-> NoSource,                 \* id passed to decrementConcurrency
      relDecr |-> 0,                      \* decrementConcurrency calls awaiting DECR
      relClamp |-> 0,                     \* ... awaiting the clamp SET 0
      after |-> "none",                   \* what the handler does once the release returns
      data |-> [count |-> 0, date |-> 0],  \* record held by getKeyData/incrementUsage
      relayed |-> FALSE,                  \* a data chunk was written to the caller
      status |-> 0,
      error |-> "none",
      body |-> [current_usage |-> 0, daily_limit |-> 0],
      \* history of this request
      frames |-> <<>>,                    \* frames written to the caller up to the first data frame
      connectedAt |-> 0,                  \* when :connected was written
      firstDataAt |-> -1,                 \* when the first data frame was written
      failed |-> {},                      \* store functions whose command failed
      released |-> 0,                     \* decrementConcurrency invocations
      holds |-> NoSource,                 \* source on which incrementConcurrency allowed
      touched |-> {},                     \* sources on which incrementConcurrency ran
      denied |-> {},                      \* sources that answered allowed=false
      via |-> "none",                     \* how the source was selected
      upstream |-> "none",                \* what the upstream did
      closedInRelay |-> FALSE,            \* the caller went while the stream was relayed
      charged |-> 0 ]                     \* usage commits written by this request

\* ------------------------------------------------------------ store primitives
\* redis.incr / redis.decr create an absent key (at 0) without a TTL
INCR(id) ==
    /\ concVal' = [concVal EXCEPT ![id] = @ + 1]
    /\ concKey' = [concKey EXCEPT ![id] = IF @ = "absent" THEN "persist" ELSE @]

DECR(id) ==
    /\ concVal' = [concVal EXCEPT ![id] = @ - 1]
    /\ concKey' = [concKey EXCEPT ![id] = IF @ = "absent" THEN "persist" ELSE @]

\* redis.expire(key, 600): no effect on an absent key
EXPIRE(id) ==
    /\ concKey' = [concKey EXCEPT ![id] = IF @ = "absent" THEN @ ELSE "volatile"]
    /\ UNCHANGED concVal

\* redis.set(key, 0): overwrites the value and drops the TTL
SET0(id) ==
    /\ concVal' = [concVal EXCEPT ![id] = 0]
    /\ concKey' = [concKey EXCEPT ![id] = "persist"]

\* ------------------------------------------------------------ pure helpers
\* shouldCountUsage, proxy.ts 226-271

\* the pieces of a URL that contain the text '/count_tokens'
CountTokensIn == {"/v1/messages/count_tokens", "?x=/count_tokens"}

\* clientPath.includes('/count_tokens'), clientPath being req.url
isCountTokensEndpoint(url) == url.path \in CountTokensIn \/ url.query \in CountTokensIn

\* content.some(block => block.type === 'tool_result'): the scan stops at
\* the first tool_result block and throws on a null block met before it
FirstStop(blocks) ==
    LET stops == {i \in 1..Len(blocks) : blocks[i] \in {"tool_result", "null"}}
    IN IF stops = {} THEN 0 ELSE CHOOSE i \in stops : \A j \in stops : i <= j

hasToolResult(blocks) == FirstStop(blocks) # 0 /\ blocks[FirstStop(blocks)] = "tool_result"

\* the TypeError of block.type on a null block met first
someThrows(blocks) == FirstStop(blocks) # 0 /\ blocks[FirstStop(blocks)] = "null"

lastMessage(messages) == messages.list[Len(messages.list)]

\* the condition under which the message branch of lines 229-271 is entered
\* (an empty list reads lastMessage as undefined)
UserLast(url, messages) ==
    /\ ~isCountTokensEndpoint(url)
    /\ messages.kind = "array" /\ Len(messages.list) > 0
    /\ lastMessage(messages).role = "user"

\* the handler leaves lines 229-271 by the exception
ShouldCountThrows(url, messages) ==
    /\ UserLast(url, messages)
    /\ lastMessage(messages).content.kind = "array"
    /\ someThrows(lastMessage(messages).content.blocks)

ShouldCountUsage(url, messages) ==
    /\ UserLast(url, messages)
    /\ LET content == lastMessage(messages).content
       IN CASE content.kind = "string" -> TRUE
            [] content.kind = "array" ->      \* stays false when some() throws
                    ~hasToolResult(content.blocks) /\ ~someThrows(content.blocks)
            [] OTHER -> ~(content.kind = "object" /\ content.type = "tool_result")

\* settings?.api_key || process.env.API_KEY_GOC as the request sees it
defaultApiKey(rec) ==
    IF rec.settings = "null" THEN cfg.API_KEY_GOC ELSE cfg.defaultApiKey

\* settings?.system_prompt as the request sees it
systemPrompt(rec) == rec.settings # "null" /\ cfg.system_prompt

\* Number(limit) || dflt
NumericLimit(limit, dflt) == IF limit = 0 THEN dflt ELSE limit

BackupIndex(id) == CHOOSE i \in 1..Len(cfg.backups) : cfg.backups[i].id = id

LimitOf(id) ==
    IF id = "default"
    THEN NumericLimit(NumericLimit(cfg.concurrency_limit, DefaultConcurrencyLimit),
                      DefaultConcurrencyLimit)
    ELSE NumericLimit(cfg.backups[BackupIndex(id)].concurrency_limit,
                      BackupConcurrencyLimit)

\* the limit passed to incrementConcurrency for the source being tried;
\* without settings the default's limit is settings?.concurrency_limit || 100
numericLimit(rec) ==
    IF rec.settings = "null" /\ rec.trySrc = "default"
    THEN DefaultConcurrencyLimit
    ELSE LimitOf(rec.trySrc)

\* position in the waterfall: default first, then the backups as stored
OrderOf(id) == IF id = "default" THEN 0 ELSE BackupIndex(id)

\* the backup loop walking the stored list from its end
NextBackupLastFirst(i) ==
    LET rest == {j \in (i + 1)..Len(cfg.backups) : cfg.backups[j].is_active}
    IN IF rest = {} THEN 0 ELSE CHOOSE j \in rest : \A k \in rest : j >= k

\* for (const backup of backups) { if (!backup.is_active) continue; ... }
\* the first active backup after position i, or 0 when the loop ends
NextBackup(i) ==
    LET rest == {j \in (i + 1)..Len(cfg.backups) : cfg.backups[j].is_active}
    IN IF rest = {} THEN 0 ELSE CHOOSE j \in rest : \A k \in rest : j <= k

\* getKeyData returning a stale record as stored
getKeyDataNoReset(rec) == rec

\* getKeyData's view of a stored record: a stale day reads as {today, 0}
getKeyData(rec) ==
    IF rec.date # today THEN [count |-> 0, date |-> today] ELSE rec

\* checkUsageLimit: pre-check without mutation
checkUsageLimit(rec) ==
    LET d == getKeyData(rec)
    IN [allowed |-> d.count < DailyLimit, currentUsage |-> d.count, limit |-> DailyLimit]

InFlight(r) == req[r].pc \notin {"idle", "done"}

\* the handler has returned and none of its release calls is outstanding
Settled(r) == ~InFlight(r) /\ req[r].relDecr = 0 /\ req[r].relClamp = 0

\* res.status(status).json({error, ...}) and return; the locals go out of scope
Respond(rec, status, error) ==
    [rec EXCEPT !.pc = "done", !.status = status, !.error = error,
                !.trySrc = NoSource, !.current = 0, !.after = "none",
                !.data = IdleRequest.data, !.relayed = FALSE]

\* if (concurrencyIdToDecrement) await decrementConcurrency(concurrencyIdToDecrement)
\* followed by what the handler does when the call returns
ReleaseThen(rec, next) ==
    [rec EXCEPT !.pc = "awaitRelease", !.after = next,
                !.relId = rec.concurrencyIdToDecrement,
                !.relDecr = @ + 1, !.released = @ + 1]

\* safeDecrement without "concurrencyIdToDecrement = null"
safeDecrementUnguarded(rec) ==
    IF rec.concurrencyIdToDecrement # NoSource
    THEN [rec EXCEPT !.relId = rec.concurrencyIdToDecrement,
                     !.relDecr = @ + 1, !.released = @ + 1]
    ELSE rec

\* safeDecrement, proxy.ts 736-743: the guard is cleared before the await
safeDecrement(rec) ==
    IF rec.concurrencyIdToDecrement # NoSource
    THEN [rec EXCEPT !.relId = rec.concurrencyIdToDecrement,
                     !.concurrencyIdToDecrement = NoSource,
                     !.relDecr = @ + 1, !.released = @ + 1]
    ELSE rec

\* ------------------------------------------------------------ history
\* Recorded runs keep, for every incrementUsage call, the caller's
\* conversationId, the time of the call and the stored count before and
\* after it, and count the calls that the turn-dedup contract charges: a call
\* is a retry when it carries the conversationId of the last charged call
\* and comes less than 60 s after it.
InIncrementUsage(rec) ==
    \/ rec.pc \in {"incRead", "incWrite"}
    \/ rec.pc = "rollWrite" /\ rec.after = "inc"

IsRetry(conv) == conv = expected.conv /\ now - expected.ts < 60000

Invoked(r) ==
    LET conv == req'[r].conversationId
        call == [conv |-> conv, ts |-> now, before |-> getKeyData(keyRec).count, after |-> -1]
    IN IF IsRetry(conv)
       THEN [expected EXCEPT !.calls = Append(@, call)]
       ELSE [expected EXCEPT !.calls = Append(@, call), !.n = @ + 1, !.conv = conv, !.ts = now]

Returned(e) == [e EXCEPT !.calls[Len(e.calls)].after = keyRec'.count]

\* A request is in a short phase while it waits for the store or for the
\* upstream's response headers: the fetch is aborted after 300 s (proxy.ts
\* 674-678), well before the counter's 600 s TTL. Reading the body is not timed.
Short(q) ==
    \/ req[q].pc \notin {"idle", "done", "readJson", "streaming"}
    \/ req[q].relDecr > 0
    \/ req[q].relClamp > 0

Hist(r) ==
    /\ UNCHANGED <<now, handlerFrame, started>>
    /\ fresh' = IF env \in {"ledger", "reset", "crash"} /\ req[r].pc = "tryExpire"
                THEN [fresh EXCEPT ![req[r].trySrc] = {q \in Requests : Short(q)}]
                ELSE fresh
    /\ IF ~recording
       THEN UNCHANGED expected
       ELSE expected' =
              CASE ~InIncrementUsage(req[r]) /\ InIncrementUsage(req'[r]) -> Invoked(r)
                [] InIncrementUsage(req[r]) /\ ~InIncrementUsage(req'[r]) -> Returned(expected)
                [] OTHER -> expected

Set(r, rec) == req' = [req EXCEPT ![r] = rec]

\* ------------------------------------------------------------ handler
\* model validation answering 400 without the release of line 475
PreparedNoRelease(rec, modelOk, nullMsg) ==
    IF ~modelOk
    THEN Respond(rec, 400, "Invalid model")
    ELSE IF /\ nullMsg
            /\ systemPrompt(rec)
            /\ ~(rec.via = "profile" /\ cfg.disable_system_prompt_injection)
         THEN Respond(rec, 500, "Internal server error")
         ELSE [rec EXCEPT !.pc = "fetch", !.timeoutId = TRUE]

\* Request preparation, proxy.ts 447-698: model validation, system prompt
\* injection, then the upstream fetch is issued.
\*   modelOk: requestBody.model === modelDisplay
\*   nullMsg: requestBody.messages holds a null entry, so that the scan
\*            messages.some(msg => msg.role === 'system') of line 549 throws
Prepared(rec, modelOk, nullMsg) ==
    IF ~modelOk
    THEN IF rec.concurrencyIdToDecrement # NoSource
         THEN ReleaseThen(rec, "400")
         ELSE Respond(rec, 400, "Invalid model")
    ELSE IF /\ nullMsg
            /\ systemPrompt(rec)
            /\ ~(rec.via = "profile" /\ cfg.disable_system_prompt_injection)
         THEN Respond(rec, 500, "Internal server error")      \* outer catch
         ELSE [rec EXCEPT !.pc = "fetch", !.timeoutId = TRUE]

Prepare(r, rec) ==
    \E nullMsg \in NullMessages : Set(r, Prepared(rec, rec.modelOk, nullMsg))

\* the queued default taking the default's slot as its own
AfterDeniedQueuedHolding(r, rec, i) ==
    LET j == NextBackup(i)
    IN IF j # 0
       THEN Set(r, [rec EXCEPT !.pc = "tryIncr", !.trySrc = cfg.backups[j].id])
       ELSE IF defaultApiKey(rec)
            THEN Prepare(r, [rec EXCEPT !.via = "queued", !.trySrc = NoSource,
                                        !.concurrencyIdToDecrement = "default"])
            ELSE Set(r, Respond(rec, 503, "Service Unavailable"))

\* Waterfall step 2/3 once every source before position i was denied or
\* skipped: the next active backup, else the queued default, else 503.
AfterDenied(r, rec, i) ==
    LET j == NextBackup(i)
    IN IF j # 0
       THEN Set(r, [rec EXCEPT !.pc = "tryIncr", !.trySrc = cfg.backups[j].id])
       ELSE IF defaultApiKey(rec)
            THEN Prepare(r, [rec EXCEPT !.via = "queued", !.trySrc = NoSource])
            ELSE Set(r, Respond(rec, 503, "Service Unavailable"))

\* getKeyData(userToken) for a token that is a reserved key, and the handler
\* up to the daily limit check. redis.get returns the value stored there:
\*   nothing        -> null, 401
\*   an admin value -> an object without daily_limit/usage_today: the
\*                     migration branch writes a fresh KeyRecord (undefined
\*                     expiry, today, count 0) under the key and returns it;
\*                     isExpired(undefined) is false
\*   a KeyRecord    -> returned (written today, so no day reset)
getKeyDataOf(r, rec, token) ==
    CASE entities[token] = "absent" ->
            /\ Set(r, Respond([IdleRequest EXCEPT !.userToken = token], 401, "Invalid API key"))
            /\ UNCHANGED entities
      [] entities[token] = "admin" ->
            /\ Set(r, [rec EXCEPT !.pc = "checkUsage"])
            /\ entities' = [entities EXCEPT ![token] = "keyrecord"]
      [] OTHER ->
            /\ Set(r, [rec EXCEPT !.pc = "checkUsage"])
            /\ UNCHANGED entities

\* Handler entry up to the daily limit check, proxy.ts 145-292: auth header,
\* getKeyData (redis.get), expiry, shouldCountUsage, conversationId.
Authenticate(r) ==
    /\ r \in ActiveRequests
    /\ IF recording
       THEN started < MaxDispatch /\ \A q \in Requests : Settled(q)
       ELSE req[r].pc = "idle"
    /\ \E auth \in Auths, token \in Tokens, failed \in StoreErrors, modelOk \in ModelOks,
          path \in Paths, last \in LastMessages, conv \in Conversations :
         LET rec == [IdleRequest EXCEPT
                        !.input = IF env = "count"
                                  THEN [url |-> path, messages |-> last] ELSE @,
                        !.userToken = token,
                        !.modelOk = modelOk,
                        !.shouldCountUsage = ShouldCountUsage(path, last),
                        !.conversationId = conv]
         IN IF token \in ReservedKeys
            THEN getKeyDataOf(r, rec, token)
            ELSE
            /\ UNCHANGED entities
            /\ CASE auth = "no_header" ->
                    Set(r, Respond(IdleRequest, 401, "Missing or invalid Authorization header"))
              [] auth # "no_header" /\ failed ->     \* getKeyData's catch returns null
                    Set(r, Respond([IdleRequest EXCEPT !.failed = {"getKeyData"}],
                                   401, "Invalid API key"))
              [] ~failed /\ auth = "unknown_key" ->
                    Set(r, Respond(IdleRequest, 401, "Invalid API key"))
              [] ~failed /\ auth = "expired" /\ keyRec.date = today ->
                    Set(r, Respond(IdleRequest, 403, "API key has expired"))
              [] ~failed /\ auth = "ok" /\ keyRec.date = today /\ ShouldCountThrows(path, last) ->
                    Set(r, Respond(rec, 500, "Internal server error"))    \* outer catch
              [] ~failed /\ auth = "ok" /\ keyRec.date = today /\ ~ShouldCountThrows(path, last) ->
                    Set(r, [rec EXCEPT !.pc = "checkUsage"])
              [] OTHER ->       \* stale day: getKeyData writes the reset record first
                    Set(r, [rec EXCEPT !.pc = "rollWrite",
                                       !.data = getKeyData(keyRec),
                                       !.after = IF auth = "ok" THEN "auth" ELSE "expired"])
    /\ started' = IF recording THEN started + 1 ELSE started
    /\ UNCHANGED <<storeVars, cfg, now, authFrame, fresh, expected>>

\* strategy selection that sends a pinned key through the waterfall as well
SelectStrategyNoPin(r, rec) ==
    IF defaultApiKey(rec)
    THEN Set(r, [rec EXCEPT !.pc = "tryIncr", !.trySrc = "default"])
    ELSE AfterDenied(r, rec, 0)

\* Strategy selection, proxy.ts 343-368: getAPIProfile of the pinned id; a
\* profile that is found and active is used directly, a missing or inactive
\* one falls through to the waterfall
SelectStrategy(r, rec) ==
    IF cfg.selected_api_profile = "active"
    THEN Prepare(r, [rec EXCEPT !.via = "profile"])
    ELSE IF defaultApiKey(rec)
         THEN Set(r, [rec EXCEPT !.pc = "tryIncr", !.trySrc = "default"])
         ELSE AfterDenied(r, rec, 0)

\* getSettings (cache miss) and the strategy selection that follows; a
\* failed redis.get is caught in getSettings, which returns null
LoadSettings(r, rec) ==
    \E failed \in StoreErrors :
        SelectStrategy(r, IF failed
                          THEN [rec EXCEPT !.settings = "null",
                                           !.failed = @ \cup {"getSettings"}]
                          ELSE rec)

\* the daily limit check without its early return
CheckUsageStepNoReturn(r, usage) ==
    LET rec == [req[r] EXCEPT !.chk = usage.currentUsage]
    IN IF defaultApiKey(rec)
       THEN Set(r, [rec EXCEPT !.pc = "tryIncr", !.trySrc = "default"])
       ELSE Set(r, Respond(rec, 503, "Service Unavailable"))

\* Daily limit check and strategy selection, proxy.ts 294-368: checkUsageLimit,
\* getSettings, the pinned profile, and the start of the waterfall
CheckUsageStep(r, usage) ==
    LET rec == [req[r] EXCEPT !.chk = usage.currentUsage]
    IN IF ~usage.allowed
       THEN Set(r, [Respond(rec, 429, "Daily limit reached") EXCEPT
                       !.body = [current_usage |-> usage.currentUsage,
                                 daily_limit |-> usage.limit]])
       ELSE LoadSettings(r, rec)

CheckUsage(r) ==
    /\ req[r].pc = "checkUsage"
    /\ CheckUsageStep(r, checkUsageLimit(keyRec))
    /\ UNCHANGED <<storeVars, cfg>>
    /\ Hist(r)

\* incrementConcurrency after its INCR (and EXPIRE), lib/redis.ts 682-688
Decide(r, rec) ==
    IF rec.current >= numericLimit(rec)
    THEN Set(r, [rec EXCEPT !.pc = "tryRollback"])
    ELSE Prepare(r, [rec EXCEPT !.concurrencyIdToDecrement = rec.trySrc,
                                !.holds = rec.trySrc,
                                !.via = IF rec.trySrc = "default" THEN "default" ELSE "backup"])

\* incrementConcurrency: const current = await redis.incr(key)
\* a failed command is caught: return { allowed: false, current: 9999 }
TryIncr(r) ==
    /\ req[r].pc = "tryIncr"
    /\ \E failed \in StoreErrors :
         IF failed
         THEN /\ UNCHANGED <<concVal, concKey>>
              /\ AfterDenied(r, [req[r] EXCEPT !.current = 9999,
                                               !.denied = @ \cup {req[r].trySrc},
                                               !.failed = @ \cup {"incrementConcurrency"}],
                             OrderOf(req[r].trySrc))
         ELSE /\ INCR(req[r].trySrc)
              /\ LET rec == [req[r] EXCEPT !.current = concVal'[req[r].trySrc],
                                           !.touched = @ \cup {req[r].trySrc}]
                 IN IF rec.current = 1
                    THEN Set(r, [rec EXCEPT !.pc = "tryExpire"])
                    ELSE Decide(r, rec)
    /\ UNCHANGED <<keyRec, today, cfg>>
    /\ Hist(r)

\* incrementConcurrency: if (current === 1) await redis.expire(key, 600)
TryExpire(r) ==
    /\ req[r].pc = "tryExpire"
    /\ EXPIRE(req[r].trySrc)
    /\ Decide(r, req[r])
    /\ UNCHANGED <<keyRec, today, cfg>>
    /\ Hist(r)

\* incrementConcurrency: await redis.decr(key); return allowed=false; the
\* handler moves on in the waterfall (getBackupProfiles, the backup loop)
TryRollback(r) ==
    /\ req[r].pc = "tryRollback"
    /\ DECR(req[r].trySrc)
    /\ AfterDenied(r, [req[r] EXCEPT !.denied = @ \cup {req[r].trySrc}],
                   OrderOf(req[r].trySrc))
    /\ UNCHANGED <<keyRec, today, cfg>>
    /\ Hist(r)

\* ------------------------------------------------------------ relay
UpstreamErrorStatuses == {429, 500}

\* res.end() on the streaming path; the 'finish' hook then runs safeDecrement
EndStream(rec, error) == Respond(safeDecrement(rec), 200, error)

\* Non-streaming tail, proxy.ts 911-936: rewriteModelName(data, modelActual,
\* displayModel) names an identifier that is not bound in the handler, the
\* ReferenceError lands in the outer catch
FinishJson(rec) == Respond(rec, 500, "Internal server error")

\* what follows incrementUsage
AfterInc(rec) == IF rec.stream THEN EndStream(rec, "none") ELSE FinishJson(rec)

\* safeIncrementUsage, proxy.ts 746-758, then res.end()
safeIncrementUsage(rec) ==
    IF rec.shouldCountUsage /\ ~rec.usageIncremented
    THEN [rec EXCEPT !.usageIncremented = TRUE, !.pc = "incRead"]
    ELSE EndStream(rec, "none")

\* if (shouldCountUsage) await incrementUsage(...), proxy.ts 900-909
AfterJson(rec) ==
    IF rec.shouldCountUsage THEN [rec EXCEPT !.pc = "incRead"] ELSE FinishJson(rec)

\* the handler resumes after an awaited decrementConcurrency
Continue(rec) ==
    CASE rec.after = "400" -> Respond(rec, 400, "Invalid model")
      [] rec.after = "504" -> Respond(rec, 504, "Request timeout")
      [] rec.after = "500" -> Respond(rec, 500, "Internal server error")
      [] rec.after = "no_reader" -> Respond(rec, 500, "Failed to read stream")
      [] rec.after = "upstream_err" -> Respond(rec, rec.status, "Upstream API error")
      [] rec.after = "upstream_err_text" -> Respond(rec, 500, "Internal server error")
      [] rec.after = "eof" -> safeIncrementUsage(rec)
      [] rec.after = "stream_err" -> EndStream(rec, "truncated")
      [] rec.after = "json" -> AfterJson(rec)

Resume(rec) ==
    IF rec.pc = "awaitRelease" /\ rec.relDecr = 0 /\ rec.relClamp = 0
    THEN Continue(rec) ELSE rec

\* decrementConcurrency: const val = await redis.decr(key)
ReleaseDecr(r) ==
    /\ req[r].relDecr > 0
    /\ DECR(req[r].relId)
    /\ Set(r, Resume([req[r] EXCEPT
                !.relDecr = @ - 1,
                !.relClamp = IF concVal'[req[r].relId] < 0 THEN @ + 1 ELSE @]))
    /\ UNCHANGED <<keyRec, today, cfg>>
    /\ Hist(r)

\* decrementConcurrency: if (val < 0) await redis.set(key, 0)
ReleaseClamp(r) ==
    /\ req[r].relClamp > 0
    /\ SET0(req[r].relId)
    /\ Set(r, Resume([req[r] EXCEPT !.relClamp = @ - 1]))
    /\ UNCHANGED <<keyRec, today, cfg>>
    /\ Hist(r)

\* await safeDecrement(reason) on the main path of a stream
AwaitSafeDecrement(rec, next) ==
    IF rec.concurrencyIdToDecrement # NoSource
    THEN [safeDecrement(rec) EXCEPT !.pc = "awaitRelease", !.after = next]
    ELSE Continue([rec EXCEPT !.after = next])

\* the unguarded release of the non-streaming paths
AwaitDecrement(rec, next) ==
    IF rec.concurrencyIdToDecrement # NoSource
    THEN ReleaseThen(rec, next)
    ELSE Continue([rec EXCEPT !.after = next])

\* res.write(':connected\n\n') and setInterval(..., 15000), proxy.ts 731-772
Connected(rec) ==
    IF env = "heartbeat"
    THEN [rec EXCEPT !.frames = <<"connected">>, !.connectedAt = now,
                     !.nextBeat = now + HeartbeatMs]
    ELSE rec

\* res.write(chunk) of a chunk with a data: line
Written(rec) ==
    IF env = "heartbeat" /\ rec.firstDataAt = -1
    THEN [rec EXCEPT !.frames = Append(@, "data"), !.firstDataAt = now]
    ELSE rec

\* await fetch(apiUrl, ...) and the dispatch on its result, proxy.ts 680-797
Fetch(r) ==
    /\ req[r].pc = "fetch"
    /\ LET rec == [req[r] EXCEPT !.timeoutId = FALSE]      \* clearTimeout, lines 700 and 709
       IN \E o \in FetchOutcomes :
            CASE o \in {"network_error", "timeout"} ->
                   Set(r, AwaitDecrement([rec EXCEPT !.upstream = o],
                                         IF o = "timeout" THEN "504" ELSE "500"))
              [] o = "error" ->
                   \* the status is mirrored unless reading the error body throws
                   \E st \in UpstreamErrorStatuses, textOk \in TextOks :
                     Set(r, AwaitDecrement([rec EXCEPT !.upstream = "error", !.status = st],
                                           IF textOk THEN "upstream_err"
                                           ELSE "upstream_err_text"))
              [] o \in {"stream", "no_reader"} ->
                   LET s == [rec EXCEPT !.upstream = "ok", !.stream = TRUE, !.hooks = TRUE]
                   IN IF o = "stream"
                      THEN Set(r, Connected([s EXCEPT !.pc = "streaming",
                                                      !.heartbeatInterval = TRUE]))
                      ELSE Set(r, AwaitSafeDecrement(s, "no_reader"))
              [] o = "json" ->
                   Set(r, [rec EXCEPT !.upstream = "ok", !.pc = "readJson"])
    /\ UNCHANGED <<storeVars, cfg>>
    /\ Hist(r)

\* reader.read() yields a chunk: rewrite and res.write(chunk)
StreamChunk(r) ==
    /\ req[r].pc = "streaming"
    /\ Set(r, Written([req[r] EXCEPT !.relayed = TRUE]))
    /\ UNCHANGED <<storeVars, cfg>>
    /\ Hist(r)

\* reader.read() yields done, proxy.ts 805-830
StreamEOF(r) ==
    /\ req[r].pc = "streaming"
    /\ Set(r, AwaitSafeDecrement([req[r] EXCEPT !.upstream = "eof",
                                                !.heartbeatInterval = FALSE], "eof"))
    /\ UNCHANGED <<storeVars, cfg>>
    /\ Hist(r)

\* the stream's catch block committing usage like the EOF branch
StreamErrorCharging(r) ==
    /\ req[r].pc = "streaming"
    /\ Set(r, AwaitSafeDecrement([req[r] EXCEPT !.upstream = "stream_error",
                                                !.heartbeatInterval = FALSE], "eof"))
    /\ UNCHANGED <<storeVars, cfg>>
    /\ Hist(r)

\* reader.read() or res.write() throws, proxy.ts 871-876
StreamError(r) ==
    /\ req[r].pc = "streaming"
    /\ Set(r, AwaitSafeDecrement([req[r] EXCEPT !.upstream = "stream_error",
                                                !.heartbeatInterval = FALSE], "stream_err"))
    /\ UNCHANGED <<storeVars, cfg>>
    /\ Hist(r)

BeatDue(r) == req[r].heartbeatInterval /\ now >= req[r].nextBeat

\* a heartbeat timer that fires once
HeartbeatOnce(r) ==
    /\ BeatDue(r)
    /\ Set(r, [req[r] EXCEPT !.heartbeatInterval = FALSE,
                             !.frames = IF req[r].firstDataAt = -1
                                        THEN Append(@, "heartbeat") ELSE @])
    /\ UNCHANGED <<storeVars, cfg>>
    /\ Hist(r)

\* the setInterval callback, proxy.ts 762-772: res.write(':heartbeat\n\n')
\* unless res.writableEnded (the interval is cleared before every res.end)
Heartbeat(r) ==
    /\ BeatDue(r)
    /\ Set(r, [req[r] EXCEPT !.nextBeat = @ + HeartbeatMs,
                             !.frames = IF req[r].firstDataAt = -1
                                        THEN Append(@, "heartbeat") ELSE @])
    /\ UNCHANGED <<storeVars, cfg>>
    /\ Hist(r)

\* 15 s pass; a timer that is due fires before the clock moves on
BeatTick ==
    /\ now < MaxNow * 30000
    /\ \A r \in Requests : ~BeatDue(r)
    /\ now' = now + HeartbeatMs
    /\ UNCHANGED <<storeVars, cfg, req, handlerFrame, started, fresh, expected>>

\* req.on('close') / res.on('error'), proxy.ts 775-790: clearInterval and the
\* release, not awaited; the stream loop is left as it is
CallerGone(r) ==
    /\ req[r].hooks /\ ~req[r].closed /\ InFlight(r)
    /\ Set(r, safeDecrement([req[r] EXCEPT !.closed = TRUE,
                                           !.heartbeatInterval = FALSE,
                                           !.closedInRelay = req[r].pc = "streaming"]))
    /\ UNCHANGED <<storeVars, cfg>>
    /\ Hist(r)

\* const data = await response.json(), proxy.ts 880-882
ReadJson(r) ==
    /\ req[r].pc = "readJson"
    /\ \/ Set(r, AwaitDecrement([req[r] EXCEPT !.upstream = "json"], "json"))
       \/ /\ env = "full"
          /\ Set(r, Respond([req[r] EXCEPT !.upstream = "bad_json"], 500, "Internal server error"))
    /\ UNCHANGED <<storeVars, cfg>>
    /\ Hist(r)

\* ------------------------------------------------------------ usage counter
\* incrementUsage without the daily_limit_reached return
IncDecideUnchecked(rec, d) ==
    [rec EXCEPT !.pc = "incWrite", !.data = [d EXCEPT !.count = @ + 1]]

\* incrementUsage after getKeyData returned d, lib/redis.ts 291-302
IncDecide(rec, d) ==
    IF d.count >= DailyLimit
    THEN AfterInc(rec)                                   \* daily_limit_reached
    ELSE [rec EXCEPT !.pc = "incWrite", !.data = [d EXCEPT !.count = @ + 1]]

\* incrementUsage: const data = await getKeyData(keyName) (redis.get)
IncRead(r) ==
    /\ req[r].pc = "incRead"
    /\ IF keyRec.date # today
       THEN Set(r, [req[r] EXCEPT !.pc = "rollWrite", !.after = "inc",
                                  !.data = getKeyData(keyRec)])
       ELSE Set(r, IncDecide(req[r], keyRec))
    /\ UNCHANGED <<storeVars, cfg>>
    /\ Hist(r)

\* incrementUsage: await redis.set(keyName, data)
IncWrite(r) ==
    /\ req[r].pc = "incWrite"
    /\ keyRec' = req[r].data
    /\ Set(r, AfterInc([req[r] EXCEPT !.charged = @ + 1]))
    /\ UNCHANGED <<concVal, concKey, today, cfg>>
    /\ Hist(r)

\* getKeyData: data.usage_today = {today, 0}; await redis.set(key, data)
RollWrite(r) ==
    /\ req[r].pc = "rollWrite"
    /\ keyRec' = req[r].data
    /\ CASE req[r].after = "auth" -> Set(r, [req[r] EXCEPT !.pc = "checkUsage"])
         [] req[r].after = "expired" -> Set(r, Respond(req[r], 403, "API key has expired"))
         [] req[r].after = "inc" -> Set(r, IncDecide(req[r], req[r].data))
    /\ UNCHANGED <<concVal, concKey, today, cfg>>
    /\ Hist(r)

\* ------------------------------------------------------------ environment
\* the store deletes a counter key whose 600 s TTL has run out: 600 s after
\* the EXPIRE, so no request that was in a short phase then still is
ExpireKey(id) ==
    /\ concKey[id] = "volatile"
    /\ \A q \in fresh[id] : ~Short(q)
    /\ concKey' = [concKey EXCEPT ![id] = "absent"]
    /\ concVal' = [concVal EXCEPT ![id] = 0]
    /\ fresh' = [fresh EXCEPT ![id] = {}]
    /\ UNCHANGED <<keyRec, today, cfg, req, now, handlerFrame, started, expected>>

\* POST /api/admin/reset-concurrency: redis.del of the counter keys of the
\* target, one source or all of them, at any moment
ResetConcurrency(ids) ==
    /\ \E id \in ids : concKey[id] # "absent"
    /\ concKey' = [id \in Sources |-> IF id \in ids THEN "absent" ELSE concKey[id]]
    /\ concVal' = [id \in Sources |-> IF id \in ids THEN 0 ELSE concVal[id]]
    /\ fresh' = [id \in Sources |-> IF id \in ids THEN {} ELSE fresh[id]]
    /\ UNCHANGED <<keyRec, today, cfg, req, now, handlerFrame, started, expected>>

\* the process serving request r dies: nothing of the handler runs any more,
\* neither the rest of a store call nor a release
Crash(r) ==
    /\ req[r].pc \notin {"idle", "done"}
    /\ Set(r, [req[r] EXCEPT !.pc = "done", !.relDecr = 0, !.relClamp = 0,
                             !.heartbeatInterval = FALSE, !.timeoutId = FALSE])
    /\ UNCHANGED <<storeVars, cfg, now, handlerFrame, started, fresh, expected>>

\* time passes
Tick ==
    /\ now < MaxNow * 30000
    /\ now' = now + 30000
    /\ UNCHANGED <<storeVars, cfg, req, handlerFrame, started, fresh, expected>>

\* ------------------------------------------------------------ KeyRecord updates
\* setKeySelectedProfile, setKeySelectedModel and the add-quota handler
KeyUpdates == {"select-profile", "select-model", "add-quota"}

\* const data = await getKeyData(keyName): the whole record is read
\* (select-profile then awaits getAPIProfile before it writes)
AdminRead(op) ==
    /\ admin.pc = "idle"
    /\ keyRec.date = today
    /\ admin' = [pc |-> "write", op |-> op, data |-> keyRec]
    /\ UNCHANGED <<storeVars, cfg, req, now, env, started, fresh, expected, entities, cacheVars, calc>>

\* data.<field> = ...; await redis.set(keyName, data): the whole record,
\* usage_today as read included, is written back
AdminWrite ==
    /\ admin.pc = "write"
    /\ keyRec' = admin.data
    /\ admin' = [admin EXCEPT !.pc = "idle"]
    /\ UNCHANGED <<concVal, concKey, today>>
    /\ UNCHANGED <<cfg, req, now, env, started, fresh, expected, entities, cacheVars, calc>>

\* midnight UTC passes; no store round trip is under way
NewDay ==
    /\ today < MaxDay
    /\ \A r \in Requests : req[r].pc \notin {"rollWrite", "incWrite"}
    /\ today' = today + 1
    /\ UNCHANGED <<concVal, concKey, keyRec>>
    /\ UNCHANGED <<cfg, req, now, handlerFrame, started, fresh, expected>>

\* ------------------------------------------------------------ caches
\* settings: settingsCache / settingsCacheTimestamp (lib/redis.ts 383-385);
\* backup_profiles: backupProfilesCache, an LRUCache with ttl 60000 and
\* updateAgeOnGet (lib/redis.ts 24-28); apiProfilesCache is built the same way
Caches == {"settings", "backup_profiles"}

\* with apiProfilesCache (key 'all_profiles'), configured as backupProfilesCache
MutableCaches == Caches \cup {"all_profiles"}

CachesOf(e) == IF e = "mutate" THEN MutableCaches ELSE Caches

SETTINGS_CACHE_TTL == 30000

backupProfilesCacheTtl == 60000

ttl(c) == IF c = "settings" THEN SETTINGS_CACHE_TTL ELSE backupProfilesCacheTtl

NoEntry == [value |-> -1, fetchedAt |-> 0, start |-> 0]

NoRead == [value |-> -1, fetchedAt |-> 0, started |-> 0, after |-> 0]

\* settings: settingsCache !== null && (now - settingsCacheTimestamp) < TTL
\* LRUCache.get: an entry is stale when now - start > ttl
CacheHit(c) ==
    /\ cache[c].value # -1
    /\ IF c = "settings"
       THEN now - cache[c].start < ttl(c)
       ELSE ~(now - cache[c].start > ttl(c))

\* getSettings / getBackupProfiles served from the cache; LRUCache.get with
\* updateAgeOnGet restarts the entry's age
ReadHit(c) ==
    /\ CacheHit(c)
    /\ served' = [served EXCEPT ![c] = [value |-> cache[c].value,
                                        fetchedAt |-> cache[c].fetchedAt,
                                        at |-> now, after |-> saving[c].completed]]
    /\ cache' = IF c = "settings" THEN cache
                ELSE [cache EXCEPT ![c].start = now]
    /\ UNCHANGED <<stored, reads, saving>>
    /\ UNCHANGED <<storeVars, cfg, req, now, env, started, fresh, expected, entities, admin, calc>>

\* cache miss: const now = Date.now(); ... await redis.get(KEY)
ReadMiss(c) ==
    /\ ~CacheHit(c)
    /\ reads[c] = NoRead
    /\ reads' = [reads EXCEPT ![c] = [value |-> stored[c], fetchedAt |-> now,
                                      started |-> now, after |-> saving[c].completed]]
    /\ UNCHANGED <<stored, cache, saving, served>>
    /\ UNCHANGED <<storeVars, cfg, req, now, env, started, fresh, expected, entities, admin, calc>>

\* the continuation of the miss: settingsCache = settings;
\* settingsCacheTimestamp = now (the now of the call's start), or
\* backupProfilesCache.set(cacheKey, result); return
ReadFill(c) ==
    /\ reads[c] # NoRead
    /\ cache' = [cache EXCEPT ![c] = [value |-> reads[c].value,
                                      fetchedAt |-> reads[c].fetchedAt,
                                      start |-> IF c = "settings" THEN reads[c].started ELSE now]]
    /\ served' = [served EXCEPT ![c] = [value |-> reads[c].value,
                                        fetchedAt |-> reads[c].fetchedAt,
                                        at |-> now, after |-> reads[c].after]]
    /\ reads' = [reads EXCEPT ![c] = NoRead]
    /\ UNCHANGED <<stored, saving>>
    /\ UNCHANGED <<storeVars, cfg, req, now, env, started, fresh, expected, entities, admin, calc>>

\* saveSettings / saveBackupProfiles: await redis.set(KEY, value)
SaveSet(c) ==
    /\ saving[c].pc = "idle"
    /\ stored[c] < MaxVersion
    /\ stored' = [stored EXCEPT ![c] = @ + 1]
    /\ saving' = [saving EXCEPT ![c].pc = "set"]
    /\ UNCHANGED <<cache, reads, served>>
    /\ UNCHANGED <<storeVars, cfg, req, now, env, started, fresh, expected, entities, admin, calc>>

\* ... clearSettingsCache() / backupProfilesCache.delete(...); return true
SaveDone(c) ==
    /\ saving[c].pc = "set"
    /\ cache' = [cache EXCEPT ![c] = NoEntry]
    /\ saving' = [saving EXCEPT ![c] = [pc |-> "idle", completed |-> stored[c]]]
    /\ UNCHANGED <<stored, reads, served>>
    /\ UNCHANGED <<storeVars, cfg, req, now, env, started, fresh, expected, entities, admin, calc>>

\* time passes between the calls; a store round trip is short against it
CacheTick ==
    /\ \A c \in Caches : reads[c] = NoRead /\ saving[c].pc = "idle"
    /\ Tick

\* ------------------------------------------------------- response rewriting
\* Texts are sequences of symbols.  In an SSE stream "D" stands for the
\* prefix 'data: ' of a line, "n" for the line feed, and the letters for the
\* characters of the payload; "A" is the upper case of "a".
NoCall == [fn |-> "none"]

Texts(alphabet, n) == UNION {[1..k -> alphabet] : k \in 1..n}

Fold(x) == IF x = "A" THEN "a" ELSE x

\* the pattern occurs in s at position i, ignoring case (flag 'i')
MatchAt(s, i, pat) ==
    /\ i + Len(pat) - 1 <= Len(s)
    /\ \A j \in 1..Len(pat) : Fold(s[i + j - 1]) = Fold(pat[j])

RECURSIVE ReplaceFrom(_, _, _, _)
ReplaceFrom(s, i, pat, rep) ==
    IF i > Len(s) THEN <<>>
    ELSE IF MatchAt(s, i, pat) THEN rep \o ReplaceFrom(s, i + Len(pat), pat, rep)
    ELSE <<s[i]>> \o ReplaceFrom(s, i + 1, pat, rep)

\* data.replace(new RegExp(escaped actualModel, 'gi'), displayModel): every
\* non-overlapping occurrence, leftmost first, in one pass over the input
ReplaceAll(s, pat, rep) == ReplaceFrom(s, 1, pat, rep)

RECURSIVE split(_)
split(s) ==
    IF \A i \in 1..Len(s) : s[i] # "n" THEN <<s>>
    ELSE LET i == CHOOSE k \in 1..Len(s) : s[k] = "n" /\ \A j \in 1..(k - 1) : s[j] # "n"
         IN <<SubSeq(s, 1, i - 1)>> \o split(SubSeq(s, i + 1, Len(s)))

RECURSIVE join(_)
join(lines) ==
    IF Len(lines) = 1 THEN lines[1]
    ELSE lines[1] \o <<"n">> \o join(Tail(lines))

\* one line of a chunk: only a line that starts with 'data: ' is rewritten,
\* through JSON.parse / rewriteModelName / JSON.stringify when its payload
\* parses and by the same replacement on the text of the line when it does not
rewriteSSELine(line, actualModel, displayModel) ==
    IF line = <<>> THEN line
    ELSE IF line[1] = "D" THEN <<"D">> \o ReplaceAll(Tail(line), actualModel, displayModel)
    ELSE line

rewriteSSEChunk(chunk, actualModel, displayModel) ==
    IF actualModel = <<>> \/ displayModel = <<>> THEN chunk
    ELSE LET lines == split(chunk)
         IN join([i \in 1..Len(lines) |-> rewriteSSELine(lines[i], actualModel, displayModel)])

SseSymbols == {"D", "a", "A", "b", "n"}
modelActual == <<"a", "b">>
modelDisplay == <<"Z">>

SseCalls ==
    {[fn |-> "sse", sent |-> t, rest |-> t, written |-> <<>>] : t \in Texts(SseSymbols, MaxLen)}

\* one turn of the stream loop: the reader yields the next piece of the
\* upstream's bytes, cut wherever the transport cut it; the piece is decoded,
\* rewritten on its own and written to the caller
RelayChunk ==
    /\ calc.fn = "sse"
    /\ calc.rest # <<>>
    /\ \E k \in 1..Len(calc.rest) :
         LET chunk == SubSeq(calc.rest, 1, k)
         IN calc' = [calc EXCEPT !.rest = SubSeq(calc.rest, k + 1, Len(calc.rest)),
                                 !.written = @ \o rewriteSSEChunk(chunk, modelActual, modelDisplay)]
    /\ UNCHANGED pureFrame

\* ---------------------------------------------------------- rewriteModelName
\* A response value: a string, an array of strings, an object (keys and
\* string values, position by position), or a primitive (null, number, boolean).
StringValue(s) == [kind |-> "string", str |-> s, keys |-> <<>>, items |-> <<>>]
ArrayValue(xs) == [kind |-> "array", str |-> <<>>, keys |-> <<>>, items |-> xs]
ObjectValue(ks, xs) == [kind |-> "object", str |-> <<>>, keys |-> ks, items |-> xs]
Primitive == [kind |-> "primitive", str |-> <<>>, keys |-> <<>>, items |-> <<>>]

ValueSymbols == {"a", "A", "b"}

ItemLists == UNION {[1..k -> Texts(ValueSymbols, 2) \cup {<<>>}] : k \in 1..2}

Values ==
    {StringValue(s) : s \in Texts(ValueSymbols, MaxLen) \cup {<<>>}}
    \cup {ArrayValue(xs) : xs \in ItemLists}
    \cup {ObjectValue([i \in 1..Len(xs) |-> <<"a", "b">>], xs) : xs \in ItemLists}
    \cup {Primitive}

\* model names an operator can configure; the empty name is the unset one
ModelNames == {<<>>, <<"a">>, <<"b">>, <<"a", "b">>, <<"A">>, <<"Z">>, <<"Z", "a">>, <<"b", "Z">>}

rewriteModelName(data, actualModel, displayModel) ==
    IF actualModel = <<>> \/ displayModel = <<>> THEN data
    ELSE CASE data.kind = "string" ->
                [data EXCEPT !.str = ReplaceAll(@, actualModel, displayModel)]
           [] data.kind \in {"array", "object"} ->
                [data EXCEPT !.items = [i \in 1..Len(@) |->
                                            ReplaceAll(@[i], actualModel, displayModel)]]
           [] OTHER -> data

RewriteCalls ==
    {[fn |-> "rewrite", n |-> 0, data |-> d, actual |-> a, display |-> p, once |-> d, twice |-> d] :
        d \in Values, a \in ModelNames, p \in ModelNames}

\* the upstream's response is rewritten for the caller
Rewrite ==
    /\ calc.fn = "rewrite"
    /\ calc.n = 0
    /\ calc' = [calc EXCEPT !.n = 1,
                            !.once = rewriteModelName(calc.data, calc.actual, calc.display)]
    /\ UNCHANGED pureFrame

\* the rewritten response is rewritten once more with the same pair
RewriteAgain ==
    /\ calc.fn = "rewrite"
    /\ calc.n = 1
    /\ calc' = [calc EXCEPT !.n = 2,
                            !.twice = rewriteModelName(calc.once, calc.actual, calc.display)]
    /\ UNCHANGED pureFrame

\* ----------------------------------------------------------- buildUpstreamUrl
\* URLs are sequences of symbols: "h" is the scheme and host, "/" the slash,
\* "v1" the two characters v1, "x" and "b" other path characters and "q" a
\* query string with its question mark.  No symbol is made of other symbols,
\* so two sequences are equal exactly when the strings are.
endsWith(s, suffix) ==
    /\ Len(suffix) <= Len(s)
    /\ SubSeq(s, Len(s) - Len(suffix) + 1, Len(s)) = suffix

startsWith(s, prefix) ==
    /\ Len(prefix) <= Len(s)
    /\ SubSeq(s, 1, Len(prefix)) = prefix

\* String.replace with a string pattern: the first occurrence only
replace(s, pat, rep) ==
    LET hits == {i \in 1..Len(s) : i + Len(pat) - 1 <= Len(s)
                                   /\ SubSeq(s, i, i + Len(pat) - 1) = pat}
    IN IF hits = {} THEN s
       ELSE LET i == CHOOSE k \in hits : \A j \in hits : k <= j
            IN SubSeq(s, 1, i - 1) \o rep \o SubSeq(s, i + Len(pat), Len(s))

V1 == <<"/", "v1">>

\* the trailing slash is kept
buildUpstreamUrlKeepSlash(apiBase, clientPath) ==
    IF endsWith(apiBase, V1)
    THEN apiBase \o (IF startsWith(clientPath, V1) THEN replace(clientPath, V1, <<>>)
                     ELSE clientPath)
    ELSE apiBase \o clientPath

buildUpstreamUrl(apiBase, clientPath) ==
    LET base == IF endsWith(apiBase, <<"/">>) THEN SubSeq(apiBase, 1, Len(apiBase) - 1)
                ELSE apiBase
    IN IF endsWith(base, V1)
       THEN LET pathWithoutV1 == IF startsWith(clientPath, V1)
                                 THEN replace(clientPath, V1, <<>>)
                                 ELSE clientPath
            IN base \o pathWithoutV1
       ELSE base \o clientPath

\* api_url of the settings or of a profile
ApiBases == {<<"h">> \o t : t \in Texts({"/", "v1", "x"}, MaxLen) \cup {<<>>}}

\* req.url: the path of the request and its query string
ClientPaths ==
    {<<"/">> \o t \o q : t \in Texts({"/", "v1", "x", "b"}, MaxLen) \cup {<<>>},
                         q \in {<<>>, <<"q">>}}

UrlCalls ==
    {[fn |-> "url", n |-> 0, apiBase |-> a, clientPath |-> p, finalUrl |-> <<>>] :
        a \in ApiBases, p \in ClientPaths}

\* the upstream URL of a dispatch is built
BuildUrl ==
    /\ calc.fn = "url"
    /\ calc.n = 0
    /\ calc' = [calc EXCEPT !.n = 1,
                            !.finalUrl = buildUpstreamUrl(calc.apiBase, calc.clientPath)]
    /\ UNCHANGED pureFrame

\* ------------------------------------------------------ system prompt injection
\* The part of the request body the injection touches: the top-level system
\* field ("absent" when the body has none) and the messages array (hasMessages
\* is FALSE when the body has no array there).  A message's content is the
\* caller's string ("text") or array of blocks ("blocks"), the prompt ("P"),
\* the prompt wrapped in [System Instructions] ("wrapped"), or the caller's
\* content with the wrapped prompt put in front ("prefix+text", "prefix+blocks").
Body(system, hasMessages, messages) ==
    [system |-> system, hasMessages |-> hasMessages, messages |-> messages]

CallerMessages ==
    UNION {[1..k -> [role : {"system", "user", "assistant"}, content : {"text", "blocks"}]] :
             k \in 0..2}

Bodies ==
    {Body(s, TRUE, m) : s \in {"absent", "caller"}, m \in CallerMessages}
    \cup {Body(s, FALSE, <<>>) : s \in {"absent", "caller"}}

\* APIProfile.system_prompt_format, or "unset"
PromptFormats ==
    {"unset", "auto", "anthropic", "openai", "both", "user_message", "inject_first_user",
     "disabled"}

\* activeSource as the strategy selection builds it: a pinned profile carries
\* both fields, the default source carries the settings' format, a backup and
\* the queued default carry neither
ActiveSources ==
    {[type |-> "profile", disableSystemPromptInjection |-> d, systemPromptFormat |-> f] :
        d \in BOOLEAN, f \in PromptFormats}
    \cup {[type |-> "default", disableSystemPromptInjection |-> FALSE,
           systemPromptFormat |-> f] : f \in PromptFormats}
    \cup {[type |-> "backup", disableSystemPromptInjection |-> FALSE,
           systemPromptFormat |-> "unset"]}

dropSystem(messages) == SelectSeq(messages, LAMBDA m : m.role # "system")

\* proxy.ts 529-653; prompt is the trimmed system prompt, "" when there is none;
\* pathHasMessages is clientPath.includes('/messages')
InjectSystemPrompt(requestBody, activeSource, prompt, pathHasMessages) ==
    IF prompt = "" \/ activeSource.disableSystemPromptInjection THEN requestBody
    ELSE
    LET formatSetting == IF activeSource.systemPromptFormat = "unset" THEN "auto"
                         ELSE activeSource.systemPromptFormat
        autoDetectedAnthropic == requestBody.system # "absent" \/ pathHasMessages
        existingSystemInMessages ==
            /\ requestBody.hasMessages
            /\ \E i \in 1..Len(requestBody.messages) : requestBody.messages[i].role = "system"
        named == formatSetting \in {"anthropic", "openai", "both", "user_message",
                                    "inject_first_user"}
        useAnthropic == \/ formatSetting \in {"anthropic", "both"}
                        \/ ~named /\ autoDetectedAnthropic
        useOpenAI == \/ formatSetting \in {"openai", "both"}
                     \/ ~named /\ ~autoDetectedAnthropic
        useUserMessage == formatSetting = "user_message"
        useInjectFirstUser == formatSetting = "inject_first_user"
        b1 == IF useAnthropic THEN [requestBody EXCEPT !.system = "P"] ELSE requestBody
        b2 == IF useOpenAI /\ b1.hasMessages
              THEN IF existingSystemInMessages
                   THEN [b1 EXCEPT !.messages =
                            [i \in 1..Len(@) |-> IF @[i].role = "system"
                                                 THEN [role |-> "system", content |-> "P"]
                                                 ELSE @[i]]]
                   ELSE [b1 EXCEPT !.messages = <<[role |-> "system", content |-> "P"]>> \o @]
              ELSE b1
        b3 == IF useUserMessage /\ b2.hasMessages
              THEN [b2 EXCEPT !.system = "absent",
                              !.messages = <<[role |-> "user", content |-> "wrapped"]>>
                                           \o dropSystem(@)]
              ELSE b2
        b4 == IF useInjectFirstUser /\ b3.hasMessages
              THEN LET kept == dropSystem(b3.messages)
                       users == {i \in 1..Len(kept) : kept[i].role = "user"}
                   IN IF users = {} THEN [b3 EXCEPT !.system = "absent", !.messages = kept]
                      ELSE LET firstUserIdx == CHOOSE i \in users : \A j \in users : i <= j
                           IN [b3 EXCEPT !.system = "absent",
                                         !.messages = [kept EXCEPT ![firstUserIdx].content =
                                              IF @ = "blocks" THEN "prefix+blocks"
                                              ELSE "prefix+text"]]
              ELSE b3
    IN b4

PromptCalls ==
    {[fn |-> "prompt", n |-> 0, requestBody |-> b, activeSource |-> s, prompt |-> p,
      pathHasMessages |-> m, forwarded |-> b] :
        b \in Bodies, s \in ActiveSources, p \in {"", "P"}, m \in BOOLEAN}

\* the request body is prepared for the upstream
InjectPrompt ==
    /\ calc.fn = "prompt"
    /\ calc.n = 0
    /\ calc' = [calc EXCEPT !.n = 1,
                            !.forwarded = InjectSystemPrompt(calc.requestBody, calc.activeSource,
                                                             calc.prompt, calc.pathHasMessages)]
    /\ UNCHANGED pureFrame

\* ------------------------------------------- format and prompt resolution
\* activeSource as proxy.ts 346-436 builds it for each kind of selection.
\* own is the system_prompt_format stored with the pinned profile or the
\* backup profile ("unset" for the default source, which has none of its own).
activeSourceOf(kind, own, settingsFormat) ==
    [type |-> IF kind = "queued" THEN "default" ELSE kind,
     disableSystemPromptInjection |-> FALSE,
     systemPromptFormat |-> CASE kind = "profile" -> own              \* line 355
                              [] kind = "default" -> settingsFormat   \* line 381
                              [] OTHER -> "unset"]                    \* lines 406-436

\* const formatSetting = activeSource.systemPromptFormat || 'auto'
formatSetting(activeSource) ==
    IF activeSource.systemPromptFormat = "unset" THEN "auto"
    ELSE activeSource.systemPromptFormat

\* proxy.ts 496-503.  selected: the key has no selected_model ("none"), one
\* without a model-config ("missing"), one whose config has an empty prompt
\* ("empty") or a prompt "M" ("set"); the result is "" when nothing is injected
systemPromptOf(selected, settingsPrompt) ==
    CASE selected = "empty" -> ""
      [] selected = "set" -> "M"
      [] OTHER -> settingsPrompt

ResolveCalls ==
    {c \in [fn : {"resolve"}, n : {0},
             kind : {"default", "queued", "profile", "backup"},
             own : PromptFormats, settingsFormat : PromptFormats,
             selected : {"none", "missing", "empty", "set"}, settingsPrompt : {"", "P"},
             format : {"unset"}, prompt : {""}] :
        c.kind \in {"default", "queued"} => c.own = "unset"}

\* the handler resolves the prompt and the format of one request
Resolve ==
    /\ calc.fn = "resolve"
    /\ calc.n = 0
    /\ calc' = [calc EXCEPT
                  !.n = 1,
                  !.prompt = systemPromptOf(calc.selected, calc.settingsPrompt),
                  !.format = formatSetting(activeSourceOf(calc.kind, calc.own,
                                                          calc.settingsFormat))]
    /\ UNCHANGED pureFrame

\* ------------------------------------------- legacy /api/v1/chat/completions
\* api/v1/chat/completions.ts, a handler of its own; calc holds its position
\* for one request of the same key: the key is valid and not expired
LegacyCalls ==
    {[fn |-> "legacy", pc |-> "incRead", data |-> [count |-> 0, date |-> 0],
      upstream |-> "none", status |-> 0, charged |-> 0]}

legacyFrame == <<cfg, req, now, env, started, fresh, expected, entities, cacheVars, admin>>

\* lines 35-65: getKeyData, isExpired, then incrementUsage up to its
\* redis.set: the record is read and the limit is checked
LegacyIncRead ==
    /\ calc.fn = "legacy"
    /\ calc.pc = "incRead"
    /\ LET d == getKeyData(keyRec)
       IN calc' = IF d.count >= DailyLimit
                  THEN [calc EXCEPT !.pc = "done", !.status = 429]
                  ELSE [calc EXCEPT !.pc = "incWrite", !.data = [d EXCEPT !.count = @ + 1]]
    /\ UNCHANGED <<storeVars, legacyFrame>>

\* incrementUsage: await redis.set(keyName, data), before the upstream is called
LegacyIncWrite ==
    /\ calc.fn = "legacy"
    /\ calc.pc = "incWrite"
    /\ keyRec' = calc.data
    /\ calc' = [calc EXCEPT !.pc = "fetch", !.charged = @ + 1]
    /\ UNCHANGED <<concVal, concKey, today, legacyFrame>>

\* lines 76-183: the upstream answers; !response.ok is passed on with the
\* upstream's status, a success is relayed
LegacyFetch ==
    /\ calc.fn = "legacy"
    /\ calc.pc = "fetch"
    /\ \E outcome \in {"ok", "error"} :
         calc' = [calc EXCEPT !.pc = "done", !.upstream = outcome,
                              !.status = IF outcome = "ok" THEN 200 ELSE 502]
    /\ UNCHANGED <<storeVars, legacyFrame>>

\* ------------------------------------------------- admin mutations of cached objects
\* The read-modify-write mutations: the getter hands out the object the
\* cache holds, the mutation changes that object in place, then the whole
\* object is written to the store.  The content of an object is a version
\* number; the content after a mutation is the version after the stored one.
MutationOps ==
    {"saveAPIProfile", "deleteAPIProfile", "saveModelConfig", "deleteModelConfig",
     "createBackupProfile"}

\* the cache whose object the operation's getter returns: getAPIProfiles,
\* getSettings, getBackupProfiles
CacheOf(op) ==
    IF op \in {"saveAPIProfile", "deleteAPIProfile"} THEN "all_profiles"
    ELSE IF op \in {"saveModelConfig", "deleteModelConfig"} THEN "settings"
    ELSE "backup_profiles"

\* what the caller of the operation gets when redis.set threw: the lib
\* function's catch returns false and the handlers of the profile and model
\* endpoints turn it into an error status; the backup create handler does
\* not look at the result of saveBackupProfiles and answers 200
StatusOnFailure(op) ==
    IF op = "createBackupProfile" THEN 200
    ELSE IF op = "deleteAPIProfile" THEN 404
    ELSE 500

\* the caches are separate objects and a mutation touches one of them: a
\* run follows the object of one cache, its reads and its mutations
MutateCalls ==
    {[fn |-> "mutate", object |-> o, pc |-> "idle", op |-> "none", read |-> 0,
      outcome |-> "none", status |-> 0, before |-> [c \in MutableCaches |-> -1]] : o \in MutableCaches}

mutateFrame == <<storeVars, cfg, req, now, env, started, fresh, expected, entities, admin>>

\* profiles[profile.id] = profile / delete profiles[id] / models[modelId] =
\* config / profiles.push(newProfile): the object is changed in place; a
\* failed earlier attempt keeps the value from before it
Mutated(c, entry) ==
    [calc EXCEPT !.pc = "set",
                 !.before[c] = IF @ = -1 THEN entry.value ELSE @]

\* const profiles = await getAPIProfiles() on a cache hit (the cached object
\* itself is returned), the mutation of it, and the call of redis.set
MutateHit(op) ==
    LET c == CacheOf(op) IN
    /\ calc.fn = "mutate" /\ calc.pc = "idle" /\ calc.object = c
    /\ stored[c] < MaxVersion
    /\ CacheHit(c)
    /\ calc' = [Mutated(c, cache[c]) EXCEPT !.op = op, !.outcome = "none", !.status = 0]
    /\ cache' = [cache EXCEPT ![c].value = stored[c] + 1,
                              ![c].start = IF c = "settings" THEN @ ELSE now]
    /\ UNCHANGED <<stored, reads, saving, served>>
    /\ UNCHANGED mutateFrame

\* the getter on a cache miss: await redis.get(KEY)
MutateMiss(op) ==
    LET c == CacheOf(op) IN
    /\ calc.fn = "mutate" /\ calc.pc = "idle" /\ calc.object = c
    /\ stored[c] < MaxVersion
    /\ ~CacheHit(c)
    /\ calc' = [calc EXCEPT !.pc = "fill", !.op = op, !.read = stored[c],
                            !.outcome = "none", !.status = 0]
    /\ UNCHANGED <<cacheVars, mutateFrame>>

\* ... cache.set(cacheKey, result); return result; then the mutation of the
\* returned object, which is the one just cached, and the call of redis.set
MutateFill ==
    LET c == CacheOf(calc.op) IN
    /\ calc.fn = "mutate" /\ calc.pc = "fill"
    /\ calc' = Mutated(c, [value |-> calc.read])
    /\ cache' = [cache EXCEPT ![c] = [value |-> stored[c] + 1, fetchedAt |-> now,
                                      start |-> now]]
    /\ UNCHANGED <<stored, reads, saving, served>>
    /\ UNCHANGED mutateFrame

\* await redis.set(KEY, object) succeeded: the cache is invalidated
\* (apiProfilesCache.clear(), clearSettingsCache(),
\* backupProfilesCache.delete(...)) and the operation returns true
MutateSet ==
    LET c == CacheOf(calc.op) IN
    /\ calc.fn = "mutate" /\ calc.pc = "set"
    /\ stored' = [stored EXCEPT ![c] = @ + 1]
    /\ cache' = [cache EXCEPT ![c] = NoEntry]
    /\ calc' = [calc EXCEPT !.pc = "idle", !.outcome = "written", !.status = 200,
                            !.before[c] = -1]
    /\ UNCHANGED <<reads, saving, served>>
    /\ UNCHANGED mutateFrame

\* await redis.set(KEY, object) threw: the catch logs and returns false,
\* the invalidation after the write is skipped
MutateSetFails ==
    /\ calc.fn = "mutate" /\ calc.pc = "set"
    /\ calc' = [calc EXCEPT !.pc = "idle", !.outcome = "write_failed",
                            !.status = StatusOnFailure(calc.op)]
    /\ UNCHANGED <<cacheVars, mutateFrame>>

\* getAPIProfiles / getSettings / getBackupProfiles called by the proxy
\* and the admin pages, on the object the run follows
ObjectReadHit(c) == calc.object = c /\ ReadHit(c)

ObjectReadMiss(c) == calc.object = c /\ ReadMiss(c)

ObjectReadFill(c) == calc.object = c /\ ReadFill(c)

\* time passes between the calls
MutateTick ==
    /\ calc.fn = "mutate" /\ calc.pc = "idle"
    /\ reads[calc.object] = NoRead
    /\ Tick

Calls(e) ==
    IF e = "sse" THEN SseCalls
    ELSE IF e = "rewrite" THEN RewriteCalls
    ELSE IF e = "url" THEN UrlCalls
    ELSE IF e = "prompt" THEN PromptCalls
    ELSE IF e = "resolve" THEN ResolveCalls
    ELSE IF e = "legacy" THEN LegacyCalls
    ELSE IF e = "mutate" THEN MutateCalls
    ELSE {NoCall}

\* ------------------------------------------------------------ specifications
InitStore ==
    /\ concVal = [id \in Sources |-> 0]
    /\ concKey = [id \in Sources |-> "absent"]
    /\ keyRec \in [count : IF env = "full" THEN {0, DailyLimit - 1}
                            ELSE IF env = "dayroll" THEN {DailyLimit - 1, DailyLimit}
                            ELSE {0},
                    date : {0}]
    /\ today = 0
    /\ cfg \in ConfigsOf(env)
    /\ req = [r \in Requests |-> IdleRequest]
    /\ now = 0
    /\ started = 0
    /\ fresh = [id \in Sources |-> {}]
    /\ expected = [n |-> 0, conv |-> "none", ts |-> 0, calls |-> <<>>]
    /\ entities \in [ReservedKeys -> IF env = "reserved" THEN {"admin", "absent"} ELSE {"admin"}]
    /\ admin = [pc |-> "idle", op |-> "none", data |-> [count |-> 0, date |-> 0]]
    /\ stored = [c \in CachesOf(env) |-> 0]
    /\ cache = [c \in CachesOf(env) |-> NoEntry]
    /\ reads = [c \in CachesOf(env) |-> NoRead]
    /\ saving = [c \in CachesOf(env) |-> [pc |-> "idle", completed |-> 0]]
    /\ served = [c \in CachesOf(env) |-> [value |-> 0, fetchedAt |-> 0, at |-> 0, after |-> 0]]
    /\ calc \in Calls(env)

Init == env = "full" /\ InitStore

InitLedger == env = "ledger" /\ InitStore

InitReset == env = "reset" /\ InitStore

InitCrash == env = "crash" /\ InitStore

InitQuota == env = "quota" /\ InitStore

InitMutate == env = "mutate" /\ InitStore

InitSeq == env = "usage" /\ InitStore

InitCount == env = "count" /\ InitStore

InitFault == env = "faulty" /\ InitStore

InitReserved == env = "reserved" /\ InitStore

InitCache == env = "cache" /\ InitStore

InitBeat == env = "heartbeat" /\ InitStore

InitAdmin == env = "admin" /\ InitStore

InitDay == env = "dayroll" /\ InitStore

InitSSE == env = "sse" /\ InitStore

InitRewrite == env = "rewrite" /\ InitStore

InitUrl == env = "url" /\ InitStore

InitPrompt == env = "prompt" /\ InitStore

InitResolve == env = "resolve" /\ InitStore

InitLegacy == env = "legacy" /\ InitStore

Next ==
    \/ \E r \in Requests :
         \/ Authenticate(r)
         \/ CheckUsage(r)
         \/ TryIncr(r)
         \/ TryExpire(r)
         \/ TryRollback(r)
         \/ Fetch(r)
         \/ StreamChunk(r)
         \/ StreamEOF(r)
         \/ StreamError(r)
         \/ CallerGone(r)
         \/ ReadJson(r)
         \/ ReleaseDecr(r)
         \/ IncRead(r)
         \/ IncWrite(r)

NextLedger ==
    \/ \E r \in Requests :
         \/ Authenticate(r)
         \/ CheckUsage(r)
         \/ TryIncr(r)
         \/ TryExpire(r)
         \/ TryRollback(r)
         \/ Fetch(r)
         \/ StreamEOF(r)
         \/ ReleaseDecr(r)
         \/ ReleaseClamp(r)
    \/ \E id \in Sources : ExpireKey(id)

NextReset ==
    \/ \E r \in Requests :
         \/ Authenticate(r)
         \/ CheckUsage(r)
         \/ TryIncr(r)
         \/ TryExpire(r)
         \/ TryRollback(r)
         \/ Fetch(r)
         \/ StreamEOF(r)
         \/ ReleaseDecr(r)
         \/ ReleaseClamp(r)
    \/ \E id \in Sources : ExpireKey(id)
    \/ \E ids \in {Sources} \cup {{id} : id \in Sources} : ResetConcurrency(ids)

NextCrash ==
    \/ \E r \in Requests :
         \/ Authenticate(r)
         \/ CheckUsage(r)
         \/ TryIncr(r)
         \/ TryExpire(r)
         \/ TryRollback(r)
         \/ Fetch(r)
         \/ StreamEOF(r)
         \/ ReleaseDecr(r)
         \/ ReleaseClamp(r)
         \/ Crash(r)
    \/ \E id \in Sources : ExpireKey(id)

NextQuota ==
    \/ \E r \in Requests :
         \/ Authenticate(r)
         \/ CheckUsage(r)
         \/ TryIncr(r)
         \/ TryExpire(r)
         \/ TryRollback(r)
         \/ Fetch(r)
         \/ StreamEOF(r)
         \/ ReleaseDecr(r)
         \/ IncRead(r)
         \/ IncWrite(r)

NextSeq ==
    \/ \E r \in Requests :
         \/ Authenticate(r)
         \/ CheckUsage(r)
         \/ TryIncr(r)
         \/ TryExpire(r)
         \/ Fetch(r)
         \/ StreamChunk(r)
         \/ StreamEOF(r)
         \/ ReadJson(r)
         \/ ReleaseDecr(r)
         \/ IncRead(r)
         \/ IncWrite(r)
    \/ Tick

NextCount ==
    \E r \in Requests :
        \/ Authenticate(r)
        \/ CheckUsage(r)
        \/ TryIncr(r)
        \/ TryExpire(r)
        \/ Fetch(r)
        \/ StreamEOF(r)
        \/ ReadJson(r)
        \/ ReleaseDecr(r)
        \/ IncRead(r)
        \/ IncWrite(r)

NextFault ==
    \E r \in Requests :
        \/ Authenticate(r)
        \/ CheckUsage(r)
        \/ TryIncr(r)
        \/ TryExpire(r)
        \/ TryRollback(r)
        \/ Fetch(r)
        \/ StreamEOF(r)
        \/ ReleaseDecr(r)
        \/ IncRead(r)
        \/ IncWrite(r)

NextReserved ==
    \E r \in Requests :
        \/ Authenticate(r)
        \/ CheckUsage(r)
        \/ TryIncr(r)
        \/ TryExpire(r)
        \/ TryRollback(r)
        \/ Fetch(r)
        \/ StreamEOF(r)
        \/ ReleaseDecr(r)

NextAdmin ==
    \/ \E r \in Requests :
         \/ Authenticate(r)
         \/ CheckUsage(r)
         \/ TryIncr(r)
         \/ TryExpire(r)
         \/ Fetch(r)
         \/ StreamEOF(r)
         \/ ReadJson(r)
         \/ ReleaseDecr(r)
         \/ IncRead(r)
         \/ IncWrite(r)
    \/ \E op \in KeyUpdates : AdminRead(op)
    \/ AdminWrite

NextLegacy ==
    \/ \E r \in Requests :
         \/ Authenticate(r)
         \/ CheckUsage(r)
         \/ TryIncr(r)
         \/ TryExpire(r)
         \/ Fetch(r)
         \/ StreamEOF(r)
         \/ ReadJson(r)
         \/ ReleaseDecr(r)
         \/ IncRead(r)
         \/ IncWrite(r)
    \/ LegacyIncRead
    \/ LegacyIncWrite
    \/ LegacyFetch

NextDay ==
    \/ \E r \in Requests :
         \/ Authenticate(r)
         \/ RollWrite(r)
         \/ CheckUsage(r)
         \/ TryIncr(r)
         \/ TryExpire(r)
         \/ Fetch(r)
         \/ StreamEOF(r)
         \/ ReadJson(r)
         \/ ReleaseDecr(r)
         \/ IncRead(r)
         \/ IncWrite(r)
    \/ NewDay

NextBeat ==
    \/ \E r \in Requests :
         \/ Authenticate(r)
         \/ CheckUsage(r)
         \/ TryIncr(r)
         \/ TryExpire(r)
         \/ Fetch(r)
         \/ StreamChunk(r)
         \/ StreamEOF(r)
         \/ CallerGone(r)
         \/ Heartbeat(r)
         \/ ReleaseDecr(r)
    \/ BeatTick

NextCache ==
    \/ \E c \in Caches :
         \/ ReadHit(c)
         \/ ReadMiss(c)
         \/ ReadFill(c)
         \/ SaveSet(c)
         \/ SaveDone(c)
    \/ CacheTick

NextMutate ==
    \/ \E c \in MutableCaches :
         \/ ObjectReadHit(c)
         \/ ObjectReadMiss(c)
         \/ ObjectReadFill(c)
    \/ \E op \in MutationOps :
         \/ MutateHit(op)
         \/ MutateMiss(op)
    \/ MutateFill
    \/ MutateSet
    \/ MutateSetFails
    \/ MutateTick

NextSSE == RelayChunk

NextRewrite == Rewrite \/ RewriteAgain

NextUrl == BuildUrl

NextPrompt == InjectPrompt

NextResolve == Resolve

\* concurrent requests of one process against the shared store
Spec == Init /\ [][Next]_vars

\* three concurrent holders of the default source
SpecLedger == InitLedger /\ [][NextLedger]_vars

\* three holders of the default source, TTL expiry and the admin reset
SpecReset == InitReset /\ [][NextReset]_vars

\* three holders of the default source served by processes that may die
SpecCrash == InitCrash /\ [][NextCrash]_vars

\* three concurrent streamed requests on one key, from an unused quota
SpecQuota == InitQuota /\ [][NextQuota]_vars

\* reads of the cached objects and admin mutations whose store write may fail
SpecMutate == InitMutate /\ [][NextMutate]_vars

\* one dispatch at a time, with a clock and the recorded usage history
SpecSeq == InitSeq /\ [][NextSeq]_vars

\* one request and KeyRecord updates by the admin/user surface
SpecAdmin == InitAdmin /\ [][NextAdmin]_vars

\* one request around a change of the day
SpecDay == InitDay /\ [][NextDay]_vars

\* one streamed request with its heartbeat timer
SpecBeat == InitBeat /\ [][NextBeat]_vars

\* one upstream SSE stream relayed in the pieces the transport delivers
SpecSSE == InitSSE /\ [][NextSSE]_vars

\* one response value rewritten twice with the same pair of model names
SpecRewrite == InitRewrite /\ [][NextRewrite]_vars

\* one upstream URL built from an api_url and a request URL
SpecUrl == InitUrl /\ [][NextUrl]_vars

\* one request body prepared under one active source
SpecPrompt == InitPrompt /\ [][NextPrompt]_vars

\* the prompt and the injection format resolved for one request
SpecResolve == InitResolve /\ [][NextResolve]_vars

\* one request to the main handler and one to the legacy endpoint, same key
SpecLegacy == InitLegacy /\ [][NextLegacy]_vars

\* reads and admin mutations of the cached entities in one process
SpecCache == InitCache /\ [][NextCache]_vars

\* one request presenting its own key or a reserved store key as its token
SpecReserved == InitReserved /\ [][NextReserved]_vars

\* one request whose store commands may fail
SpecFault == InitFault /\ [][NextFault]_vars

\* one request over every shape of URL and message list
SpecCount == InitCount /\ [][NextCount]_vars

\* ------------------------------------------------------------ properties
Acquired(r) == IF req[r].holds # NoSource THEN 1 ELSE 0

Quiescent == \A r \in Requests : Settled(r)

\* the request was granted a slot on id and has not released it
Holding(r, id) == req[r].holds = id /\ req[r].released = 0

Eligible(id) ==
    IF id = "default" THEN cfg.defaultApiKey ELSE cfg.backups[BackupIndex(id)].is_active

\* the sources the waterfall tries up to and including id
TriedUpTo(id) == {s \in Sources : Eligible(s) /\ OrderOf(s) <= OrderOf(id)}

\* C1: once a request has terminated (on any path) and its release calls
\* have returned, it has released exactly as many slots as it acquired.
C1_AcquireReleasedExactlyOnce ==
    \A r \in Requests : Settled(r) => req[r].released = Acquired(r)

\* C2: decrementConcurrency is invoked at most once for a request that
\* acquired a slot, in any order of EOF, stream error, caller close, finish
\* and response error, and never for a request that acquired none.
C2_ReleasedAtMostOnce ==
    \A r \in Requests : req[r].released <= Acquired(r)

\* C2 witness: the caller disconnected during a stream that then reached
\* EOF, and the request ended with its slot released once.
C2_Witness ==
    \E r \in Requests :
        /\ req[r].pc = "done" /\ req[r].closed /\ req[r].upstream = "eof"
        /\ Acquired(r) = 1 /\ req[r].released = 1

\* C3: when every request has terminated, every concurrency counter is 0.
C3_QuiescentCountersZero ==
    Quiescent => \A id \in Sources : concVal[id] = 0

\* C4: the number of in-flight requests holding a slot on a source never
\* exceeds the limit of that source, also across expiry of the counter's TTL.
C4_HoldersWithinLimit ==
    \A id \in Sources : Cardinality({r \in Requests : Holding(r, id)}) <= LimitOf(id)

\* C5: a request whose upstream answered 4xx/5xx, or whose stream failed
\* mid-way with a read error, neither calls incrementUsage nor writes the
\* KeyRecord: usage_today.count is not charged.
C5_NoChargeOnFailure ==
    \A r \in Requests :
        req[r].upstream \in {"error", "stream_error"} =>
            /\ req[r].charged = 0
            /\ ~req[r].usageIncremented
            /\ ~InIncrementUsage(req[r])

\* C5 witness: a countable request got an upstream error status and another
\* countable request lost its stream mid-way; both have terminated.
C5_Witness ==
    \E r, q \in Requests :
        /\ req[r].pc = "done" /\ req[r].shouldCountUsage /\ req[r].upstream = "error"
        /\ req[q].pc = "done" /\ req[q].shouldCountUsage /\ req[q].upstream = "stream_error"

\* C6: after a sequence of successful dispatches on one day, the stored
\* count is min(N_counted, daily_limit), N_counted leaving out count_tokens
\* calls, non-user-text last messages and same-conversation retries within 60 s.
C6_QuotaIntegrity ==
    Quiescent => keyRec.count = Min(expected.n, DailyLimit)

\* C7: usage_today.count never exceeds daily_limit, also when two requests
\* that both passed the pre-check at limit-1 both commit.
C7_CountWithinLimit == keyRec.count <= DailyLimit

\* C7 witness: both requests passed the pre-check at limit-1, both wrote
\* their increment, and the count stands at the limit.
C7_Witness ==
    /\ \A r \in {"r1", "r2"} : req[r].chk = DailyLimit - 1 /\ req[r].charged = 1
    /\ keyRec.count = DailyLimit

\* C8 (as claimed): a request whose pre-check reads count >= daily_limit is
\* answered 429 without acquisition, upstream call or charge, and a request
\* whose pre-check reads count < daily_limit is never answered 429.
C8_Original ==
    \A r \in Requests :
        req[r].pc = "done" =>
            /\ req[r].chk >= DailyLimit =>
                 /\ req[r].status = 429
                 /\ req[r].touched = {} /\ req[r].upstream = "none" /\ req[r].charged = 0
            /\ req[r].chk < DailyLimit => req[r].status # 429

\* C8 (amended): a request whose pre-check reads count >= daily_limit is
\* answered 429 'Daily limit reached' carrying current_usage and daily_limit,
\* without acquisition, upstream call or charge; a request whose pre-check
\* reads count < daily_limit never gets that answer, and gets a 429 only as
\* the mirrored status of an upstream 429.
C8_DailyLimit429 ==
    \A r \in Requests :
        req[r].pc = "done" =>
            /\ req[r].chk >= DailyLimit =>
                 /\ req[r].status = 429 /\ req[r].error = "Daily limit reached"
                 /\ req[r].body = [current_usage |-> req[r].chk, daily_limit |-> DailyLimit]
                 /\ req[r].touched = {} /\ req[r].upstream = "none" /\ req[r].charged = 0
            /\ req[r].chk < DailyLimit =>
                 /\ req[r].error # "Daily limit reached"
                 /\ req[r].status = 429 =>
                        req[r].upstream = "error" /\ req[r].error = "Upstream API error"

\* C8 witness: one request was admitted below the limit and its charge filled
\* the quota; the other then read count = daily_limit and was refused.
C8_Witness ==
    \E r, q \in Requests :
        /\ req[q].pc = "done" /\ req[q].chk < DailyLimit /\ req[q].charged = 1
        /\ req[r].pc = "done" /\ req[r].chk = DailyLimit
        /\ req[r].status = 429 /\ req[r].error = "Daily limit reached"

\* C9: of two consecutive incrementUsage calls with the same conversationId
\* (the count staying within the limit), the second leaves the count one
\* above its value before the first when it comes less than 60 s after the
\* first, and two above when it comes 60 s or more after it.
C9_TurnDedup ==
    \A i \in 1..(Len(expected.calls) - 1) :
        LET a == expected.calls[i]
            b == expected.calls[i + 1]
        IN (a.conv = b.conv /\ b.after # -1 /\ a.before + 2 <= DailyLimit) =>
               IF b.ts - a.ts < 60000
               THEN b.after = a.before + 1
               ELSE b.after = a.before + 2

\* C10: a request served through the waterfall holds the first source, in
\* the order default then active backups as stored, whose acquisition
\* succeeded: it has run incrementConcurrency on exactly the configured
\* default and the active backups up to the selected one, on no inactive
\* backup and on no source after the selected one.
C10_WaterfallOrder ==
    \A r \in Requests :
        /\ \A id \in req[r].touched : Eligible(id)
        /\ req[r].via \in {"default", "backup"} =>
               /\ req[r].holds # NoSource
               /\ req[r].via = "default" <=> req[r].holds = "default"
               /\ req[r].touched = TriedUpTo(req[r].holds)
        /\ req[r].via = "queued" => req[r].touched = {s \in Sources : Eligible(s)}

\* C10 witness: with default and B1 saturated a request selected B2 after
\* trying default and B1, while the other request holds default.
C10_Witness ==
    \E r, q \in Requests :
        /\ req[r].via = "backup" /\ req[r].holds = "B2"
        /\ req[r].touched = {"default", "B1", "B2"}
        /\ Holding(q, "default") /\ InFlight(q)

Counted(r, id) ==
    /\ id \in req[r].touched
    /\ id \notin req[r].denied
    /\ ~(req[r].holds = id /\ req[r].released > 0 /\ req[r].relDecr = 0)

C13_AllowedUpToLimit ==
    \A r \in Requests :
        /\ req[r].pc = "tryRollback" => req[r].current > LimitOf(req[r].trySrc)
        /\ (req[r].pc = "fetch" /\ req[r].holds # NoSource) =>
               req[r].current <= LimitOf(req[r].holds)

C15_DeadlineBoundsUpstream ==
    \A r \in Requests :
        /\ req[r].pc \in {"fetch", "streaming", "readJson"} => req[r].timeoutId
        /\ (req[r].upstream = "timeout" /\ req[r].pc = "done") =>
               /\ req[r].status = 504
               /\ req[r].released = Acquired(r) /\ req[r].relDecr = 0

\* C16: once the caller has disconnected (or the caller-side response has
\* failed) during the relay of a stream, the heartbeat is stopped, the slot
\* is released, the upstream read is interrupted, and the request commits
\* no usage increment, also when the upstream reaches EOF afterwards.
C16_DisconnectEndsRelay ==
    \A r \in Requests :
        req[r].closedInRelay =>
            /\ ~req[r].heartbeatInterval
            /\ req[r].released = Acquired(r)
            /\ req[r].pc # "streaming"
            /\ ~InIncrementUsage(req[r]) /\ req[r].charged = 0

\* C17: a non-streaming request whose upstream answered 2xx with a JSON
\* body ends with its slot released and a success response to the caller
\* (the upstream body with the model name rewritten), never with a 500.
C17_NonStreamSuccess ==
    \A r \in Requests :
        (req[r].upstream = "json" /\ req[r].pc = "done") =>
            /\ req[r].released = Acquired(r) /\ req[r].relDecr = 0
            /\ req[r].status = 200 /\ req[r].error = "none"

\* what the request of r was, for the requests that passed authentication
Judged(r) ==
    /\ env = "count"
    /\ req[r].pc # "idle"
    /\ req[r].status \notin {401, 403}

\* the rule of the claim on the path and the message list
CountsByRule(path, messages) ==
    /\ path \notin CountTokensIn
    /\ messages.kind = "array" /\ Len(messages.list) > 0
    /\ lastMessage(messages).role = "user"
    /\ LET content == lastMessage(messages).content
       IN \/ content.kind = "string"
          \/ content.kind = "array"
                /\ \A i \in 1..Len(content.blocks) : content.blocks[i] # "tool_result"
          \/ content.kind \in {"object", "null"} /\ content.type # "tool_result"

\* C18: shouldCountUsage is true exactly when the path is not a
\* /count_tokens path, the last message of the messages array has role
\* 'user' and its content is a string, an array without a tool_result
\* block, or a single value whose type is not 'tool_result'; otherwise it
\* is false and the finished request leaves usage_today.count unchanged.
C18_CountedExactly ==
    \A r \in Requests :
        Judged(r) =>
            /\ req[r].shouldCountUsage
                    = CountsByRule(req[r].input.url.path, req[r].input.messages)
            /\ (~CountsByRule(req[r].input.url.path, req[r].input.messages)
                    /\ req[r].pc = "done")
                  => (req[r].charged = 0 /\ keyRec.count = 0)

\* C19: the count_tokens exemption depends on the path only: a request
\* gets the shouldCountUsage of the same request without its query
\* string, and a streamed request to /v1/messages with user text that was
\* relayed to the end is charged whatever its query string contains.
C19_QueryStringIrrelevant ==
    \A r \in Requests :
        Judged(r) =>
            /\ req[r].shouldCountUsage
                    = ShouldCountUsage(Url(req[r].input.url.path, ""), req[r].input.messages)
            /\ (/\ req[r].input.url.path = "/v1/messages"
                /\ req[r].input.messages
                        = Messages("array", <<Message("user", StringContent)>>)
                /\ req[r].upstream = "eof" /\ req[r].pc = "done")
                  => req[r].charged = 1

\* C20: a store error in getKeyData, getSettings or the increment of
\* incrementConcurrency ends the request with HTTP 500: it is not answered
\* 401 'Invalid API key' and it does not go on with defaults or with
\* another source.
C20_StoreErrorIsFatal ==
    \A r \in Requests :
        req[r].failed # {} =>
            /\ req[r].pc = "done"
            /\ req[r].status = 500 /\ req[r].error = "Internal server error"
            /\ req[r].via = "none" /\ req[r].holds = NoSource

\* C21: whatever bearer token a request presents, the values stored under
\* the reserved keys (settings, profiles, backup profiles, announcements)
\* stay the admin's: the handler writes none of them.
C21_ReservedKeysUntouched ==
    \A k \in ReservedKeys : entities[k] # "keyrecord"

\* C22: a read that starts after an admin mutation of the entity has
\* completed returns a value at least as new as that mutation wrote, also
\* when another read of the entity was in flight while the mutation ran.
C22_ReadAfterMutation ==
    \A c \in Caches : served[c].value >= served[c].after

\* C23: a value returned by a read was fetched from the store at most the
\* cache's TTL earlier, however often the cache is read in between.
C23_StalenessBounded ==
    \A c \in Caches : served[c].at - served[c].fetchedAt <= ttl(c)

\* C24: select-profile, select-model and add-quota leave usage_today.count
\* as the core wrote it, also when they interleave with an incrementUsage
\* on the same key: the stored count is the number of committed increments.
C24_UpdatesKeepCount ==
    env = "admin" => keyRec.count = req["r1"].charged

\* C25: a getKeyData that finds usage_today.date different from today
\* returns with {today, 0} stored under the key, and the request that
\* follows such a read is pre-checked against count 0.
C25_DayRoll ==
    [][\A r \in Requests :
          /\ (req[r].pc = "rollWrite" /\ req'[r].pc # "rollWrite")
                => keyRec' = [count |-> 0, date |-> today']
          /\ (req[r].pc = "checkUsage" /\ req[r].after = "auth" /\ req'[r].pc # "checkUsage")
                => (req'[r].chk = 0 /\ req'[r].status # 429)]_vars

\* a request of the new day, admitted with count 0 and served, after a
\* day on which the key had used its quota
C25_Witness ==
    /\ today = 1
    /\ req["r1"].pc = "done" /\ req["r1"].status = 200 /\ req["r1"].chk = 0
    /\ req["r1"].charged = 1
    /\ keyRec = [count |-> 1, date |-> 1]

Beats(r) ==
    Cardinality({i \in 1..Len(req[r].frames) : req[r].frames[i] = "heartbeat"})

\* how long the upstream was silent after :connected, so far or until its
\* first data frame
SilentFor(r) ==
    (IF req[r].firstDataAt = -1 THEN now ELSE req[r].firstDataAt) - req[r].connectedAt

\* C26: the first frame written on a streaming request is :connected, and
\* when the upstream has been silent for 45 s with the caller connected,
\* at least two :heartbeat frames were written before any data frame.
C26_HeartbeatWhileSilent ==
    \A r \in Requests :
        req[r].frames # <<>> =>
            /\ req[r].frames[1] = "connected"
            /\ (/\ ~req[r].closed
                /\ req[r].pc = "streaming" \/ req[r].firstDataAt # -1
                /\ SilentFor(r) >= 45000)
                  => Beats(r) >= 2

\* the first data frame arrives 45 s or more after :connected
C26_Witness ==
    /\ ~req["r1"].closed /\ req["r1"].firstDataAt # -1
    /\ SilentFor("r1") >= 45000
    /\ req["r1"].frames[Len(req["r1"].frames)] = "data"
    /\ Beats("r1") >= 2

\* C27: however the upstream's SSE bytes are cut into chunks, once the whole
\* stream has been relayed the concatenation of what was written to the
\* caller is the line-wise rewrite of the concatenation of what the upstream
\* sent: every data: line has every occurrence of modelActual replaced
C27_ChunkingIrrelevant ==
    (calc.fn = "sse" /\ calc.rest = <<>>)
        => calc.written = rewriteSSEChunk(calc.sent, modelActual, modelDisplay)

\* C28: for every response value and every pair (actual, display) of
\* non-empty model names, rewriteModelName applied twice with that pair
\* gives the result of applying it once
C28_RewriteIdempotent ==
    (calc.fn = "rewrite" /\ calc.n = 2 /\ calc.actual # <<>> /\ calc.display # <<>>)
        => calc.twice = calc.once

\* what is left of a URL from its query string on
QueryOf(u) ==
    IF \A i \in 1..Len(u) : u[i] # "q" THEN <<>>
    ELSE SubSeq(u, CHOOSE k \in 1..Len(u) : u[k] = "q" /\ \A j \in 1..(k - 1) : u[j] # "q", Len(u))

\* C29: buildUpstreamUrl(apiBase, clientPath) is apiBase without its trailing
\* '/', followed by clientPath without its leading '/v1' when the trimmed
\* apiBase ends with '/v1' and clientPath begins with '/v1', and by clientPath
\* verbatim otherwise; the query string is carried over unchanged;
\* (https://h/v1/, /v1/x?a=1) gives https://h/v1/x?a=1 and (https://h, /v1/x)
\* gives https://h/v1/x
C29_UpstreamUrl ==
    (calc.fn = "url" /\ calc.n = 1) =>
        LET a == calc.apiBase
            p == calc.clientPath
            trimmed == IF a[Len(a)] = "/" THEN SubSeq(a, 1, Len(a) - 1) ELSE a
            strip == /\ Len(trimmed) >= 2
                     /\ trimmed[Len(trimmed) - 1] = "/" /\ trimmed[Len(trimmed)] = "v1"
                     /\ Len(p) >= 2 /\ p[1] = "/" /\ p[2] = "v1"
        IN /\ calc.finalUrl = trimmed \o (IF strip THEN SubSeq(p, 3, Len(p)) ELSE p)
           /\ QueryOf(calc.finalUrl) = QueryOf(p)
           /\ (a = <<"h", "/", "v1", "/">> /\ p = <<"/", "v1", "/", "x", "q">>)
                 => calc.finalUrl = <<"h", "/", "v1", "/", "x", "q">>
           /\ (a = <<"h">> /\ p = <<"/", "v1", "/", "x">>)
                 => calc.finalUrl = <<"h", "/", "v1", "/", "x">>

\* an api_url ending with '/v1/' and a request for /v1/x with a query string
C29_Witness ==
    /\ calc.fn = "url"
    /\ calc.n = 1
    /\ calc.apiBase = <<"h", "/", "v1", "/">>
    /\ calc.clientPath = <<"/", "v1", "/", "x", "q">>
    /\ calc.finalUrl = <<"h", "/", "v1", "/", "x", "q">>

\* C30: when the active source has disable_system_prompt_injection = true, or
\* its system_prompt_format is 'disabled', the forwarded body's top-level
\* system field and its messages array are those of the caller's request
C30_NoInjection ==
    (/\ calc.fn = "prompt" /\ calc.n = 1
     /\ \/ calc.activeSource.disableSystemPromptInjection
        \/ calc.activeSource.systemPromptFormat = "disabled")
        => /\ calc.forwarded.system = calc.requestBody.system
           /\ calc.forwarded.hasMessages = calc.requestBody.hasMessages
           /\ calc.forwarded.messages = calc.requestBody.messages

\* C31: for every kind of selected source (default, queued default, pinned
\* profile, backup) the injection format used is the source's own
\* system_prompt_format when it has one, otherwise the settings'
\* system_prompt_format, otherwise 'auto'
C31_FormatResolution ==
    (calc.fn = "resolve" /\ calc.n = 1) =>
        calc.format = IF calc.own # "unset" THEN calc.own
                      ELSE IF calc.settingsFormat # "unset" THEN calc.settingsFormat
                      ELSE "auto"

\* C32: the injected prompt is the selected model-config's system_prompt when
\* the key has a selected_model whose config exists and whose prompt is
\* non-empty, and settings.system_prompt in every other case, including a
\* selected model-config with an empty prompt
C32_PromptSource ==
    (calc.fn = "resolve" /\ calc.n = 1) =>
        calc.prompt = IF calc.selected = "set" THEN "M" ELSE calc.settingsPrompt

\* C33: the legacy endpoint api/v1/chat/completions increments usage only
\* after a successful upstream response: a request whose upstream answers
\* 4xx/5xx has committed no increment of usage_today.count
C33_LegacyChargesOnSuccess ==
    (calc.fn = "legacy" /\ calc.pc = "done" /\ calc.upstream = "error")
        => calc.charged = 0

\* C34: a source configured with concurrency_limit = 0 is disabled for
\* acquisition: try_acquire on it is refused without any mutation of the
\* store, so its counter is never incremented, even transiently, never
\* created and never given a TTL
C34_LimitZeroUntouched ==
    \A id \in Sources :
        (IF id = "default" THEN cfg.concurrency_limit
         ELSE cfg.backups[BackupIndex(id)].concurrency_limit) = 0
            => concVal[id] = 0 /\ concKey[id] = "absent"

\* a store command of some incrementConcurrency or decrementConcurrency has
\* run and the call has not returned
MidLedgerCall ==
    \E r \in Requests : req[r].pc \in {"tryExpire", "tryRollback"} \/ req[r].relClamp > 0

\* the clamp SET 0 of some decrementConcurrency on source id
ClampStep(id) ==
    \E r \in Requests : req[r].relClamp > 0 /\ req[r].relId = id
                         /\ req'[r].relClamp = req[r].relClamp - 1

\* C35: whenever no try_acquire or release is mid-execution every
\* concurrency counter is >= 0, under any interleaving of acquirers,
\* rollbacks and releasers with TTL expiry and the admin reset; and the
\* clamp write of 0 in release never replaces a positive counter that
\* carries the increment of a request holding the source
C35_LedgerNonNegative ==
    /\ [](~MidLedgerCall => \A id \in Sources : concVal[id] >= 0)
    /\ [][\A id \in Sources :
            ClampStep(id) => ~(concVal[id] > 0 /\ \E q \in Requests : Holding(q, id))]_vars

\* C36: a process may die at any point after its increment, also between the
\* increment and the setting of the TTL; whenever no call of a live process
\* is between its store commands, no counter with a positive value exists
\* without a TTL, so that the slots of a dead process expire with the key
C36_PositiveCounterHasTtl ==
    ~MidLedgerCall => \A id \in Sources : concVal[id] > 0 => concKey[id] = "volatile"

\* C37: no request is both charged against the quota and answered with a
\* 4xx/5xx: once the usage increment of a request is committed, its caller
\* gets a 200 body (non-streaming) or a normally ended stream (streaming).
C37_ChargedImpliesSuccess ==
    \A r \in Requests :
        (req[r].pc = "done" /\ req[r].charged > 0) =>
            /\ req[r].status < 400
            /\ req[r].error = "none"

\* the caller of r was relayed to an upstream and got a normally ended
\* stream, for a request that counts against the quota
CountableSuccess(r) ==
    /\ req[r].shouldCountUsage
    /\ req[r].upstream = "eof"
    /\ req[r].status = 200

\* C38: for a key with daily_limit = L, at most L countable requests are
\* relayed to an upstream and answered successfully during one day, under
\* any interleaving of concurrent requests between the pre-check and the
\* deferred commit.
C38_SuccessesWithinLimit ==
    Cardinality({r \in Requests : CountableSuccess(r)}) <= DailyLimit

\* C39: when the store write of an admin mutation (saveAPIProfile,
\* deleteAPIProfile, saveModelConfig, deleteModelConfig, backup-profile
\* create) fails, the operation reports failure, and every later read in the
\* process returns the value from before the attempt (the value a read
\* returned then, or the one the store holds), not the unpersisted change.
C39_FailedWriteLeavesCache ==
    /\ [](calc.fn = "mutate" /\ calc.outcome = "write_failed" => calc.status >= 400)
    /\ [][\A c \in MutableCaches :
            (calc.fn = "mutate" /\ calc.pc = "idle" /\ calc.before[c] # -1
             /\ served'[c] # served[c])
                => served'[c].value \in {calc.before[c], stored[c]}]_vars
====
